---- MODULE Spec2Model ----
(***************************************************************************)
(* VPSentinel agent: the process entry point (main), the scheduling loop   *)
(* (collectionLoop), one collection cycle (collectAndSend), the delivery   *)
(* client (transport.Client: Send, CheckCommands, SendCommandResponse) and *)
(* the command tasks started by a cycle (commands.Handler.Execute).        *)
(*                                                                         *)
(* Durations are counted in whole seconds: every duration the transport    *)
(* computes is initialDelay * 2.0 * attempt with an integer attempt, or    *)
(* the 60 s cap, so no fraction of a second ever occurs.                   *)
(***************************************************************************)
EXTENDS Integers, Sequences, FiniteSets, TLC

VARIABLES
    mainPc,        \* main: "select" (l.56), "waitDone" (l.60), "exited" (l.66)
    loopPc,        \* collectionLoop / collectAndSend / Send position
    cancelled,     \* ctx is cancelled (ctx.Done() is closed)
    sigChan,       \* number of signals buffered in sigChan (capacity 1)
    sigsSent,      \* OS signals delivered so far
    done,          \* the done channel is closed
    tickerOn,      \* the ticker exists and has not been stopped
    tickerC,       \* number of ticks buffered in ticker.C (capacity 1)
    cycles,        \* collectAndSend calls started so far
    failed,        \* data sources that failed in the current cycle
    gathered,      \* locals of collectAndSend: sysMetrics, ports, ...
    payload,       \* the assembled models.Payload of the current cycle
    sendCalls,     \* client.Send calls made by the current cycle
    sentPayload,   \* the payload handed to client.Send
    attempt,       \* Send: the loop variable attempt
    lastErr,       \* Send: lastErr
    sendAttempts,  \* Send: requests made by the current Send call
    sendFailures,  \* Send: requests of the current call not answered by a 2xx
    lastResp,      \* Send: the collector's answer to the latest request
    slept,         \* Send: the delays slept by the current Send call
    sendResult,    \* what the current Send call returned
    tasks,         \* the command goroutines started so far
    restartTimers, \* goroutines of handleRestart sleeping before shutdown
    cfg,           \* main: the configuration loaded at startup (l.28)
    file,          \* the configuration file config.json
    polls,         \* CheckCommands calls made by the current cycle
    polled,        \* collectAndSend: what CheckCommands received and returned
    pollErr,       \* collectAndSend: CheckCommands returned an error
    stamp,         \* the Timestamp of the payload handed to client.Send
    wire,          \* sendRequest: the body of the latest request of the cycle
    hostState      \* the host as the data sources find it: tool outputs, ...

vars == <<mainPc, loopPc, cancelled, sigChan, sigsSent, done, tickerOn,
          tickerC, cycles, failed, gathered, payload, sendCalls, sentPayload,
          attempt, lastErr, sendAttempts, sendFailures, lastResp, slept,
          sendResult, tasks, restartTimers, cfg, file, polls, polled,
          pollErr, stamp, wire, hostState>>

mainVars  == <<mainPc, sigChan, sigsSent>>
pollVars  == <<polls, polled, pollErr>>
cycleVars == <<failed, gathered, payload, sendCalls, sentPayload, pollVars>>
sendVars  == <<attempt, lastErr, sendAttempts, sendFailures, lastResp, slept,
               sendResult>>
taskVars  == <<tasks, restartTimers>>
confVars  == <<cfg, file>>

-----------------------------------------------------------------------------
(* Bounds of the model *)

MaxCycles == 2
MaxCmds == 1
MaxSignals == 1
MaxAttemptArg == 40
MaxUpdates == 2
MaxPings == 2
MaxStops == 2
MaxRestarts == 2
MaxLines == 2
MaxDomains == 3
MaxLag == 1
MaxForms == 2
MaxPaths == 2
MaxFileLines == 3
MaxWords == 2
MaxTicks == 3

-----------------------------------------------------------------------------
(* transport: constants *)

Second == 1
maxRetries == 5
initialDelay == 1 * Second
maxDelay == 60 * Second
backoffMultiplier == 2

\* A response of the collector: an HTTP status, or NetErr when httpClient.Do
\* returns an error (no response: refused, reset, request timeout).
NetErr == 0
Statuses == {NetErr, 200, 204, 300, 401, 403, 500}
SystemStatuses == {NetErr, 200, 401}

\* a response with a success status, as the collector means it
Is2xx(r) == r \in 200..299

\* error values of the transport package
NoErr == [kind |-> "nil", status |-> 0]
RequestFailed == [kind |-> "request failed", status |-> 0]
HTTPError(status) == [kind |-> "HTTPError", status |-> status]

\* what Send returns: nothing yet, nil, an error returned as it is, or
\* fmt.Errorf("failed to send after %d attempts: %w", maxRetries, lastErr)
Pending == [ret |-> "pending", wrapped |-> FALSE, err |-> NoErr]
RetNil == [ret |-> "nil", wrapped |-> FALSE, err |-> NoErr]
RetErr(e) == [ret |-> "err", wrapped |-> FALSE, err |-> e]
RetExhausted(e) == [ret |-> "err", wrapped |-> TRUE, err |-> e]

-----------------------------------------------------------------------------
(* transport: pure parts of Send *)

\* a slip: success tested as "StatusCode != 200", as CheckCommands does
sendRequest_Only200(r) ==
    IF r = NetErr THEN RequestFailed
    ELSE IF r # 200 THEN HTTPError(r)
    ELSE NoErr

\* sendRequest: the error one HTTP request returns for the response r
sendRequest(r) ==
    IF r = NetErr THEN RequestFailed
    ELSE IF r < 200 \/ r >= 300 THEN HTTPError(r)
    ELSE NoErr

\* a slip: "attempt <= maxRetries"
LoopContinues_OneMore(a) == a <= maxRetries

\* the condition of the for loop of Send
LoopContinues(a) == a < maxRetries

\* a slip: 403 is not tested
IsAuthError_Only401(e) ==
    e.kind = "HTTPError" /\ e.status = 401

\* the test "httpErr.StatusCode == 401 || httpErr.StatusCode == 403"
IsAuthError(e) ==
    e.kind = "HTTPError" /\ (e.status = 401 \/ e.status = 403)

\* a slip: the delay of the attempt number counted from 1
calculateBackoff_FromOne(a) ==
    LET delay == initialDelay * backoffMultiplier * (a + 1)
    IN  IF delay > maxDelay THEN maxDelay ELSE delay

\* calculateBackoff(attempt)
calculateBackoff(a) ==
    LET delay == initialDelay * backoffMultiplier * a
    IN  IF delay > maxDelay THEN maxDelay ELSE delay

-----------------------------------------------------------------------------
(* models: slices; Go tells a nil slice from an empty one, both have len 0 *)

NilSlice == [nil |-> TRUE, elems |-> <<>>]
EmptySlice == [nil |-> FALSE, elems |-> <<>>]
MkSlice(s) == [nil |-> FALSE, elems |-> s]

Sources == {"system", "ports", "services", "ssl", "logs"}

\* What a data source returns in one cycle.  failed: the source could not
\* observe the host; err: the error the call returns to collectAndSend.
\* metrics.CollectSystem: partial metrics and the first error, or metrics
SystemOutcomes ==
    { [failed |-> TRUE, err |-> TRUE, val |-> "partial"],
      [failed |-> FALSE, err |-> FALSE, val |-> "metrics"] }
\* network.GetOpenPorts: (nil, err) when ss and every netstat variant fail;
\* (nil, nil) when the tool that ran lists no record that passes the filter
PortsOutcomes ==
    { [failed |-> TRUE, err |-> TRUE, val |-> NilSlice],
      [failed |-> FALSE, err |-> FALSE, val |-> NilSlice],
      [failed |-> FALSE, err |-> FALSE, val |-> MkSlice(<<"tcp/80">>)] }
\* services.DetectAllServices: no error value; nil when no query succeeds
ServicesOutcomes ==
    { [failed |-> TRUE, err |-> FALSE, val |-> NilSlice],
      [failed |-> FALSE, err |-> FALSE, val |-> MkSlice(<<"nginx">>)] }

\* the outcomes of a source that is up
Healthy(O) == { o \in O : ~o.failed }

NoLocals ==
    [system |-> "zero", ports |-> NilSlice, services |-> NilSlice,
     ssl |-> NilSlice, logs |-> NilSlice]
NoPayload ==
    [system |-> "zero", ports |-> NilSlice, services |-> NilSlice,
     ssl |-> NilSlice, logs |-> NilSlice, host |-> ""]

\* "ports = []models.PortInfo{}" and its like: the value kept for a source
\* whose call returned (val, err)
OrEmpty(res) == IF res.err THEN EmptySlice ELSE res.val

\* servicesList := make([]models.ServiceInfo, len(detectedServices)) + copy
servicesList(detected) == MkSlice(detected.elems)

\* a slip: "return err" when a source call returns an error
AfterSource_ReturnErr(next, res) == IF res.err THEN "ret" ELSE next

\* Where collectAndSend goes after a data source returned: it never returns
\* early on a source error.
AfterSource(next, res) == next

\* the models.Payload literal of collectAndSend
AssemblePayload(l, name) ==
    [system |-> l.system, ports |-> l.ports, services |-> l.services,
     ssl |-> l.ssl, logs |-> l.logs, host |-> name]

\* what os.Hostname() gives: the name of the machine, or "" with an error
OsHostnames == {"vps1", ""}

\* "Get hostname (from config or system)": the hostname of the
\* configuration, else the one of the system, else "unknown"
HostnameOf(configured, system) ==
    IF configured # "" THEN configured
    ELSE IF system # "" THEN system
    ELSE "unknown"

\* Timestamp: time.Now().UTC() of the Payload literal.  The clock is read
\* once per cycle, and the cycles start a whole interval apart, so the
\* reading of cycle c is told apart from every other by c.
NoStamp == 0
Now(c) == c

\* a slip: a request body that leaves the log records out
Marshal_NoLogs(p, t) == [body |-> [p EXCEPT !.logs = NilSlice], ts |-> t]

\* jsonData of sendRequest: json.Marshal of the parameter of Send, a
\* Payload with its Timestamp
Marshal(p, t) == [body |-> p, ts |-> t]
NoRequest == Marshal(NoPayload, NoStamp)

-----------------------------------------------------------------------------
(* config: JSON values, the Config struct, Load, Validate, SetDefaults, Save *)

\* JSON values as encoding/json decodes them into interface{}: strings,
\* numbers (float64), arrays, null, anything else (true, false, objects),
\* and the absence of a key.  A number is kept as a count of halves, so that 21
\* is 10.5 and a whole number n is 2 * n.  A backend URL is a sequence of
\* characters, every other string a TLA+ string.
Str(s) == [t |-> "string", v |-> s]
Num(h) == [t |-> "number", v |-> h]
Arr(a) == [t |-> "array", v |-> a]
Null   == [t |-> "null", v |-> 0]
Other  == [t |-> "other", v |-> 0]
Absent == [t |-> "absent", v |-> 0]

IsStr(e) == e.t = "string"
IsNum(e) == e.t = "number"

\* a slip: rounding half up instead of truncating
Trunc_Round(h) == (h + 1) \div 2

\* int(x) of a float64 x: truncation toward zero
Trunc(h) == IF h >= 0 THEN h \div 2 ELSE -((-h) \div 2)

\* the whole number n as a JSON number
Whole(n) == Num(2 * n)

HttpsPrefix == <<"h", "t", "t", "p", "s", ":", "/", "/">>
HttpPrefix  == <<"h", "t", "t", "p", ":", "/", "/">>
UrlA        == HttpsPrefix \o <<"a">>
UrlB        == HttpsPrefix \o <<"b">>
UrlPlain    == HttpPrefix \o <<"b">>
NoUrl       == <<>>

\* the zero value of config.Config (a nil slice is the empty sequence)
ZeroConfig ==
    [APIKey |-> "", BackendURL |-> NoUrl, IntervalSeconds |-> 0,
     Hostname |-> "", LogPaths |-> <<>>, LogMaxLines |-> 0,
     SSLDomains |-> <<>>, PortsToMonitor |-> <<>>]

\* Validate: "" when the configuration is accepted, else the error
Validate(c) ==
    IF c.APIKey = "" THEN "api_key is required"
    ELSE IF c.BackendURL = NoUrl THEN "backend_url is required"
    ELSE IF c.IntervalSeconds <= 0 THEN "interval_seconds must be positive"
    ELSE IF c.IntervalSeconds < 10
         THEN "interval_seconds must be at least 10 seconds"
    ELSE IF Len(c.BackendURL) < 8 \/ SubSeq(c.BackendURL, 1, 8) # HttpsPrefix
         THEN "backend_url must use HTTPS"
    ELSE ""

\* SetDefaults
SetDefaults(c) ==
    [c EXCEPT !.LogMaxLines = IF c.LogMaxLines <= 0 THEN 100 ELSE @]

\* a []string and a []int as JSON arrays
StrArr(s) == Arr([i \in 1..Len(s) |-> Str(s[i])])
IntArr(s) == Arr([i \in 1..Len(s) |-> Whole(s[i])])

\* a slip: ports_to_monitor is not written
Encode_NoPorts(c) ==
    [api_key          |-> Str(c.APIKey),
     backend_url      |-> Str(c.BackendURL),
     interval_seconds |-> Whole(c.IntervalSeconds),
     hostname         |-> IF c.Hostname = "" THEN Absent ELSE Str(c.Hostname),
     log_paths        |-> IF Len(c.LogPaths) = 0 THEN Absent
                          ELSE StrArr(c.LogPaths),
     log_max_lines    |-> IF c.LogMaxLines = 0 THEN Absent
                          ELSE Whole(c.LogMaxLines),
     ssl_domains      |-> IF Len(c.SSLDomains) = 0 THEN Absent
                          ELSE StrArr(c.SSLDomains),
     ports_to_monitor |-> Absent]

\* json.Encoder.Encode of a Config: the three required fields are always
\* written, the optional ones (omitempty) only when they are not zero or empty
Encode(c) ==
    [api_key          |-> Str(c.APIKey),
     backend_url      |-> Str(c.BackendURL),
     interval_seconds |-> Whole(c.IntervalSeconds),
     hostname         |-> IF c.Hostname = "" THEN Absent ELSE Str(c.Hostname),
     log_paths        |-> IF Len(c.LogPaths) = 0 THEN Absent
                          ELSE StrArr(c.LogPaths),
     log_max_lines    |-> IF c.LogMaxLines = 0 THEN Absent
                          ELSE Whole(c.LogMaxLines),
     ssl_domains      |-> IF Len(c.SSLDomains) = 0 THEN Absent
                          ELSE StrArr(c.SSLDomains),
     ports_to_monitor |-> IF Len(c.PortsToMonitor) = 0 THEN Absent
                          ELSE IntArr(c.PortsToMonitor)]

\* json.Decoder.Decode into a Config: what each key of the object must be.
\* A null is accepted everywhere and leaves the field, or the element of a
\* list, at its zero value.
IsInt(e) == IsNum(e) /\ e.v % 2 = 0
Unset(e) == e = Absent \/ e = Null
DecodesAsString(e) == Unset(e) \/ IsStr(e)
DecodesAsInt(e) == Unset(e) \/ IsInt(e)
DecodesAsStrings(e) ==
    \/ Unset(e)
    \/ e.t = "array" /\ \A i \in 1..Len(e.v) : e.v[i] = Null \/ IsStr(e.v[i])
DecodesAsInts(e) ==
    \/ Unset(e)
    \/ e.t = "array" /\ \A i \in 1..Len(e.v) : e.v[i] = Null \/ IsInt(e.v[i])

\* the keys of the schema; decoder.DisallowUnknownFields() rejects an object
\* with any other key
SchemaKeys == DOMAIN Encode(ZeroConfig)

Decodable(o) ==
    /\ DOMAIN o \subseteq SchemaKeys
    /\ DecodesAsString(o.api_key)
    /\ DecodesAsString(o.backend_url)
    /\ DecodesAsInt(o.interval_seconds)
    /\ DecodesAsString(o.hostname)
    /\ DecodesAsStrings(o.log_paths)
    /\ DecodesAsInt(o.log_max_lines)
    /\ DecodesAsStrings(o.ssl_domains)
    /\ DecodesAsInts(o.ports_to_monitor)

StringOf(e, zero) == IF Unset(e) THEN zero ELSE e.v
IntOf(e) == IF Unset(e) THEN 0 ELSE e.v \div 2
StringsOf(e) ==
    IF Unset(e) THEN <<>>
    ELSE [i \in 1..Len(e.v) |-> StringOf(e.v[i], "")]
IntsOf(e) ==
    IF Unset(e) THEN <<>> ELSE [i \in 1..Len(e.v) |-> IntOf(e.v[i])]

Decode(o) ==
    [APIKey          |-> StringOf(o.api_key, ""),
     BackendURL      |-> StringOf(o.backend_url, NoUrl),
     IntervalSeconds |-> IntOf(o.interval_seconds),
     Hostname        |-> StringOf(o.hostname, ""),
     LogPaths        |-> StringsOf(o.log_paths),
     LogMaxLines     |-> IntOf(o.log_max_lines),
     SSLDomains      |-> StringsOf(o.ssl_domains),
     PortsToMonitor  |-> IntsOf(o.ports_to_monitor)]

\* the configuration file: os.Create leaves it empty until Encode has written;
\* a file that does not exist cannot be opened
EmptyFile == [state |-> "empty", obj |-> Encode(ZeroConfig)]
FileOf(c) == [state |-> "complete", obj |-> Encode(c)]
MissingFile == [state |-> "missing", obj |-> Encode(ZeroConfig)]

\* a slip: Load does not call Validate
Load_NoValidate(f) ==
    IF f.state = "missing"
    THEN [cfg |-> ZeroConfig, err |-> "failed to open config file"]
    ELSE IF f.state = "empty" \/ ~Decodable(f.obj)
    THEN [cfg |-> ZeroConfig, err |-> "failed to parse config file"]
    ELSE [cfg |-> SetDefaults(Decode(f.obj)), err |-> ""]

\* Load: (cfg, err)
Load(f) ==
    IF f.state = "missing"
    THEN [cfg |-> ZeroConfig, err |-> "failed to open config file"]
    ELSE IF f.state = "empty" \/ ~Decodable(f.obj)
    THEN [cfg |-> ZeroConfig, err |-> "failed to parse config file"]
    ELSE IF Validate(Decode(f.obj)) # ""
    THEN [cfg |-> ZeroConfig, err |-> "config validation failed"]
    ELSE [cfg |-> SetDefaults(Decode(f.obj)), err |-> ""]
-----------------------------------------------------------------------------
(* commands: handleUpdateConfig *)

\* the "config" object of an update_config payload: every key of the
\* configuration schema is either absent or carries a JSON value
Obj(o) == [t |-> "object", v |-> o]

NoConfigObject ==
    [api_key |-> Absent, backend_url |-> Absent, interval_seconds |-> Absent,
     hostname |-> Absent, log_paths |-> Absent, log_max_lines |-> Absent,
     ssl_domains |-> Absent, ports_to_monitor |-> Absent]

\* newConfig, ok := cmd.Payload["config"].(map[string]interface{})
HasConfigObject(p) == p.config.t = "object"

\* x, ok := newConfig[key].(string); ok && x != ""
NonEmptyString(e, zero) == IsStr(e) /\ e.v # zero

\* x, ok := newConfig[key].(float64); ok && x > 0
PositiveNumber(e) == IsNum(e) /\ e.v > 0

\* the string elements of an array, in order
StringElems(a) ==
    LET s == SelectSeq(a, IsStr) IN [i \in 1..Len(s) |-> s[i].v]

\* the number elements of an array, in order, each converted with int()
IntElems(a) ==
    LET s == SelectSeq(a, IsNum) IN [i \in 1..Len(s) |-> Trunc(s[i].v)]

\* a slip: an empty api_key or backend_url, or a non-positive number, is
\* merged like any other value
Merge_Unguarded(cur, new) ==
    [APIKey          |-> IF IsStr(new.api_key) THEN new.api_key.v
                         ELSE cur.APIKey,
     BackendURL      |-> IF IsStr(new.backend_url) THEN new.backend_url.v
                         ELSE cur.BackendURL,
     IntervalSeconds |-> IF IsNum(new.interval_seconds)
                         THEN Trunc(new.interval_seconds.v)
                         ELSE cur.IntervalSeconds,
     Hostname        |-> IF IsStr(new.hostname) THEN new.hostname.v
                         ELSE cur.Hostname,
     LogPaths        |-> IF new.log_paths.t = "array"
                         THEN StringElems(new.log_paths.v) ELSE cur.LogPaths,
     LogMaxLines     |-> IF IsNum(new.log_max_lines)
                         THEN Trunc(new.log_max_lines.v) ELSE cur.LogMaxLines,
     SSLDomains      |-> IF new.ssl_domains.t = "array"
                         THEN StringElems(new.ssl_domains.v)
                         ELSE cur.SSLDomains,
     PortsToMonitor  |-> IF new.ports_to_monitor.t = "array"
                         THEN IntElems(new.ports_to_monitor.v)
                         ELSE cur.PortsToMonitor]

\* handleUpdateConfig, "Update config fields (merge with current)": the
\* configuration that is handed to config.Save
Merge(cur, new) ==
    [APIKey          |-> IF NonEmptyString(new.api_key, "")
                         THEN new.api_key.v ELSE cur.APIKey,
     BackendURL      |-> IF NonEmptyString(new.backend_url, NoUrl)
                         THEN new.backend_url.v ELSE cur.BackendURL,
     IntervalSeconds |-> IF PositiveNumber(new.interval_seconds)
                         THEN Trunc(new.interval_seconds.v)
                         ELSE cur.IntervalSeconds,
     Hostname        |-> IF IsStr(new.hostname) THEN new.hostname.v
                         ELSE cur.Hostname,
     LogPaths        |-> IF new.log_paths.t = "array"
                         THEN StringElems(new.log_paths.v) ELSE cur.LogPaths,
     LogMaxLines     |-> IF PositiveNumber(new.log_max_lines)
                         THEN Trunc(new.log_max_lines.v) ELSE cur.LogMaxLines,
     SSLDomains      |-> IF new.ssl_domains.t = "array"
                         THEN StringElems(new.ssl_domains.v)
                         ELSE cur.SSLDomains,
     PortsToMonitor  |-> IF new.ports_to_monitor.t = "array"
                         THEN IntElems(new.ports_to_monitor.v)
                         ELSE cur.PortsToMonitor]

\* a slip: the error of config.Load is ignored and the update goes on
UpdateStart_IgnoreLoadErr(p, f) ==
    IF ~HasConfigObject(p)
    THEN [err |-> "invalid config payload", cur |-> ZeroConfig]
    ELSE [err |-> "", cur |-> Merge(Load(f).cfg, p.config.v)]

\* handleUpdateConfig up to the call of config.Save: the payload check, the
\* Load of the current configuration and the merge
UpdateStart(p, f) ==
    IF ~HasConfigObject(p)
    THEN [err |-> "invalid config payload", cur |-> ZeroConfig]
    ELSE IF Load(f).err # ""
    THEN [err |-> "failed to load current config", cur |-> ZeroConfig]
    ELSE [err |-> "", cur |-> Merge(Load(f).cfg, p.config.v)]
-----------------------------------------------------------------------------
(* commands *)

CmdTypes == {"stop", "restart", "update_config", "ping", "reboot"}

\* a models.Command without its ID (the ID is given when the task starts)
EmptyPayload == [config |-> Absent]
Cmd(type, p) == [payload |-> p, type |-> type]

\* the commands of the types T; only update_config reads its payload, which
\* is drawn from P
Commands(T, P) ==
    { Cmd(t, EmptyPayload) : t \in T \ {"update_config"} }
      \cup { Cmd(t, p) : t \in T \cap {"update_config"}, p \in P }

\* a slip: the switch of Execute has no case "ping"
ExecOutcomes_NoPing(type) ==
    CASE type = "stop" ->
           { [err |-> "", result |-> "Agent shutdown initiated", launched |-> FALSE] }
      [] type = "restart" ->
           { [err |-> "", result |-> "Agent restart initiated", launched |-> TRUE],
             [err |-> "failed to get executable path", result |-> "", launched |-> FALSE],
             [err |-> "failed to get absolute path", result |-> "", launched |-> FALSE],
             [err |-> "failed to start new instance", result |-> "", launched |-> FALSE] }
      [] OTHER ->
           { [err |-> "unknown command type", result |-> "", launched |-> FALSE] }

\* a slip: the goroutine that shuts down is started before the error of
\* restartCmd.Start() is looked at
ExecOutcomes_ShutdownOnFailedStart(type) ==
    CASE type = "stop" ->
           { [err |-> "", result |-> "Agent shutdown initiated", launched |-> FALSE] }
      [] type = "restart" ->
           { [err |-> "", result |-> "Agent restart initiated", launched |-> TRUE],
             [err |-> "failed to get executable path", result |-> "", launched |-> FALSE],
             [err |-> "failed to get absolute path", result |-> "", launched |-> FALSE],
             [err |-> "failed to start new instance", result |-> "", launched |-> TRUE] }
      [] type = "ping" ->
           { [err |-> "", result |-> "pong", launched |-> FALSE] }
      [] OTHER ->
           { [err |-> "unknown command type", result |-> "", launched |-> FALSE] }

\* Execute: the (message, error) pairs the handler of a command type can
\* return; launched: handleRestart started the new instance.  The case
\* update_config is handleUpdateConfig, which runs in the steps TaskUpdate,
\* TaskSaveCreate and TaskSaveEncode below.
ExecOutcomes(type) ==
    CASE type = "stop" ->
           { [err |-> "", result |-> "Agent shutdown initiated", launched |-> FALSE] }
      [] type = "restart" ->
           { [err |-> "", result |-> "Agent restart initiated", launched |-> TRUE],
             [err |-> "failed to get executable path", result |-> "", launched |-> FALSE],
             [err |-> "failed to get absolute path", result |-> "", launched |-> FALSE],
             [err |-> "failed to start new instance", result |-> "", launched |-> FALSE] }
      [] type = "ping" ->
           { [err |-> "", result |-> "pong", launched |-> FALSE] }
      [] OTHER ->
           { [err |-> "unknown command type", result |-> "", launched |-> FALSE] }

\* a slip: the default case of Execute shuts the agent down
CallsShutdown_Default(type) == type \notin {"restart", "update_config", "ping"}

\* a slip: handleStop does not call h.shutdown()
CallsShutdown_None(type) == FALSE

\* handleStop is the only handler that calls h.shutdown() itself
CallsShutdown(type) == type = "stop"

\* the goroutine body of collectAndSend: status and message from (result, err)
OutcomeStatus(o) == IF o.err # "" THEN "error" ELSE "success"
OutcomeMessage(o) == IF o.err # "" THEN o.err ELSE o.result

NoResponse == [status |-> "", command_id |-> 0, message |-> ""]

\* a goroutine "go func(c models.Command)" that has not run yet; cur, saw
\* and wrote are the locals and the file accesses of handleUpdateConfig
NewTask(id, cmd) ==
    [payload |-> cmd.payload, status |-> "", cur |-> ZeroConfig, type |-> cmd.type,
     message |-> "", id |-> id, pc |-> "exec", execs |-> 0,
     acks |-> 0, sent |-> NoResponse, saw |-> "", wrote |-> FALSE]

RECURSIVE SpawnAll(_, _)
SpawnAll(ts, cmds) ==
    IF cmds = <<>> THEN ts
    ELSE SpawnAll(Append(ts, NewTask(Len(ts) + 1, Head(cmds))), Tail(cmds))

\* the command lists a poll can return: at most n commands out of C
CmdSeqs(C, n) ==
    UNION { [1..k -> C] : k \in 0..n }

\* the answers of the collector to GET /api/agent/commands: no answer at all
\* (NetErr), a status with a body that is not a command list, or a status
\* with a command list
PollAnswers(S, C, n) ==
    { [status |-> s, cmds |-> <<>>, decodable |-> FALSE] : s \in S }
      \cup { [status |-> s, cmds |-> c, decodable |-> TRUE] :
                s \in S \ {NetErr}, c \in CmdSeqs(C, n) }

\* a slip: every 2xx status is taken for success
CheckCommands_Any2xx(r) ==
    IF r.status = NetErr THEN [err |-> "request failed", cmds |-> <<>>]
    ELSE IF ~Is2xx(r.status)
    THEN [err |-> "unexpected status code", cmds |-> <<>>]
    ELSE IF ~r.decodable
    THEN [err |-> "failed to decode response", cmds |-> <<>>]
    ELSE [err |-> "", cmds |-> r.cmds]

\* CheckCommands: (commands, err) for the answer r
CheckCommands(r) ==
    IF r.status = NetErr THEN [err |-> "request failed", cmds |-> <<>>]
    ELSE IF r.status # 200
    THEN [err |-> "unexpected status code", cmds |-> <<>>]
    ELSE IF ~r.decodable
    THEN [err |-> "failed to decode response", cmds |-> <<>>]
    ELSE [err |-> "", cmds |-> r.cmds]

\* collectAndSend before its CheckCommands call
NoAnswer == [status |-> NetErr, cmds |-> <<>>, decodable |-> FALSE]
NoPoll == [cmds |-> <<>>, answer |-> NoAnswer]

\* the Go runtime ends every goroutine when main returns
Alive == mainPc # "exited"

-----------------------------------------------------------------------------
(* update_config payloads *)

\* the values a collector may send under each key of the config object:
\* well-typed and accepted, well-typed and empty or not positive,
\* fractional, ill-typed
ApiKeyValues == {Str(""), Str("key2"), Whole(7)}
BackendUrlValues == {Str(NoUrl), Str(UrlB), Str(UrlPlain), Other}
IntervalValues == {Whole(0), Whole(5), Whole(30), Num(61), Num(1), Str("30")}
HostnameValues == {Str(""), Str("host2"), Null, Other}
LogPathsValues ==
    {Arr(<<>>), Arr(<<Str("/var/log/a")>>),
     Arr(<<Str("/var/log/a"), Whole(1), Str("/var/log/b")>>),
     Str("/var/log/a")}
LogMaxLinesValues == {Whole(0), Whole(50), Num(101), Str("50")}
SSLDomainsValues == {Arr(<<>>), Arr(<<Str("b.example")>>), Other}
PortsValues ==
    {Arr(<<>>), Arr(<<Whole(80), Whole(443)>>),
     Arr(<<Whole(80), Str("443")>>), Arr(<<Num(161)>>), Whole(80)}

\* config objects that carry one key
OneKeyObjects ==
    { [NoConfigObject EXCEPT !.api_key = v] : v \in ApiKeyValues }
      \cup { [NoConfigObject EXCEPT !.backend_url = v] : v \in BackendUrlValues }
      \cup { [NoConfigObject EXCEPT !.interval_seconds = v] : v \in IntervalValues }
      \cup { [NoConfigObject EXCEPT !.hostname = v] : v \in HostnameValues }
      \cup { [NoConfigObject EXCEPT !.log_paths = v] : v \in LogPathsValues }
      \cup { [NoConfigObject EXCEPT !.log_max_lines = v] : v \in LogMaxLinesValues }
      \cup { [NoConfigObject EXCEPT !.ssl_domains = v] : v \in SSLDomainsValues }
      \cup { [NoConfigObject EXCEPT !.ports_to_monitor = v] : v \in PortsValues }

\* a config object that carries every key with an accepted value
FullObject ==
    [api_key |-> Str("key2"), backend_url |-> Str(UrlB),
     interval_seconds |-> Whole(30), hostname |-> Str("host2"),
     log_paths |-> Arr(<<Str("/var/log/a")>>), log_max_lines |-> Whole(50),
     ssl_domains |-> Arr(<<Str("b.example")>>),
     ports_to_monitor |-> Arr(<<Whole(80), Whole(443)>>)]

\* config objects that carry two keys, one of them not accepted
TwoKeyObjects ==
    { [NoConfigObject EXCEPT !.api_key = Str(""), !.hostname = Str("host2")],
      [NoConfigObject EXCEPT !.interval_seconds = Whole(0),
                             !.backend_url = Str(UrlB)],
      [NoConfigObject EXCEPT !.log_max_lines = Str("50"),
                             !.interval_seconds = Whole(30)] }

ConfigObjects ==
    OneKeyObjects \cup TwoKeyObjects \cup {NoConfigObject, FullObject}

\* payloads without a config object: no "config" key, or a value under it
\* that is not an object
MalformedPayloads == {EmptyPayload, [config |-> Other], [config |-> Str("x")]}

MergePayloads ==
    MalformedPayloads \cup { [config |-> Obj(o)] : o \in ConfigObjects }

\* the payloads of the agent model: none, a new hostname, an interval below
\* the minimum
HostnameUpdate == [config |-> Obj([NoConfigObject EXCEPT !.hostname = Str("host2")])]
ShortInterval == [config |-> Obj([NoConfigObject EXCEPT !.interval_seconds = Whole(5)])]
LinesUpdate == [config |-> Obj([NoConfigObject EXCEPT !.log_max_lines = Whole(50)])]
\* an update whose config object has no key: the current configuration is
\* loaded and saved as it is
EmptyUpdate == [config |-> Obj(NoConfigObject)]
SystemPayloads == {EmptyPayload, HostnameUpdate, ShortInterval}

-----------------------------------------------------------------------------
(* network: port discovery *)

\* A line of tool output is the sequence of its fields, which single blanks
\* separate.  A field is a word, a number (digits only), an address that
\* ends in ":" and digits (num is the number the digits spell), an address
\* that ends in "." and digits ("*.22"), an address that ends otherwise
\* ("0.0.0.0:*", "*.*"), the process column of ss
\* (users:(("text",pid=num,fd=7))) or the one of netstat (num/text).
Word(s) == [kind |-> "word", text |-> s, num |-> 0]
Number(n) == [kind |-> "num", text |-> "", num |-> n]
AddrPort(n) == [kind |-> "addr", text |-> "", num |-> n]
AddrDot(n) == [kind |-> "dotaddr", text |-> "", num |-> n]
AddrOther == [kind |-> "peer", text |-> "", num |-> 0]
Users(s, n) == [kind |-> "users", text |-> s, num |-> n]
PidProg(n, s) == [kind |-> "pidprog", text |-> s, num |-> n]

\* digits that spell a number outside the range of int: strconv.Atoi fails
OutOfRange == -1

\* strings.Contains(text, needle) on the texts that occur in the lines below
Contains(text, needle) ==
    \/ text = needle
    \/ <<text, needle>> \in
         { <<"LISTENING", "LISTEN">>, <<"udp6", "udp">>, <<"udpxy", "udp">>,
           <<"dockerd", "docker">>, <<"mysqld", "mysql">>,
           <<"redis-server", "redis">>, <<"mongod", "mongo">> }

\* strings.Contains(line, needle) for a needle without blanks
LineContains(line, needle) ==
    \E i \in DOMAIN line : Contains(line[i].text, needle)

Least(S) == CHOOSE x \in S : \A y \in S : x <= y

IsNumber(line, i) == i \in DOMAIN line /\ line[i].kind = "num"

\* `.*?:(\d+)\s+` after position a: the fields that end in ":" and digits
\* and are followed by a blank
PortFields(line, a) ==
    { b \in (a + 1)..(Len(line) - 1) : line[b].kind = "addr" }

\* `.*?\s+users:\(\("([^"]+)",pid=(\d+),` after the port field b: a blank,
\* anything, a blank, the process column
ProcessFields(line, b, kind) ==
    { c \in (b + 2)..Len(line) : line[c].kind = kind }

\* `LISTEN\s+\d+\s+\d+\s+`: the positions of a LISTEN followed by two numbers
ListenHeads(line) ==
    { a \in DOMAIN line : /\ line[a] = Word("LISTEN")
                          /\ IsNumber(line, a + 1)
                          /\ IsNumber(line, a + 2) }

\* the last character of the field is one of \w: a letter, a digit or "_".
\* Of the words below only "-" ends otherwise; the process column of ss
\* ends in ")", an address of kind "peer" in "*".
EndsInWordChar(field) ==
    \/ field.kind \in {"num", "addr", "dotaddr", "pidprog"}
    \/ field.kind = "word" /\ field.text # "-"

\* `(\w+)\s+\d+\s+\d+\s+`: a field that ends in a word character, followed
\* by two numbers
WordHeads(line) ==
    { a \in DOMAIN line : /\ EndsInWordChar(line[a])
                          /\ IsNumber(line, a + 1)
                          /\ IsNumber(line, a + 2) }

NoMatch == [port |-> 0, matched |-> FALSE, process |-> "", pid |-> 0]

\* `(\w+)` at the start of a program name: its leading letters, digits and
\* "_", on the names that occur in the lines below
LeadingWord(s) ==
    CASE s = "redis-server" -> "redis"
      [] s = "php-fpm" -> "php"
      [] OTHER -> s

\* the process name that the pattern captures from a process column:
\* `"([^"]+)"` of ss the whole name, `(\d+)/(\w+)` of netstat its leading
\* word
Captured(field) ==
    IF field.kind = "pidprog" THEN LeadingWord(field.text) ELSE field.text

\* FindStringSubmatch of a pattern head .. port .. process column: the
\* leftmost head, then the first port field from which the rest matches
FindWithProcess(line, heads, kind) ==
    LET H == { a \in heads :
                 \E b \in PortFields(line, a + 2) :
                    ProcessFields(line, b, kind) # {} }
    IN IF H = {} THEN NoMatch
       ELSE LET a == Least(H)
                b == Least({ x \in PortFields(line, a + 2) :
                               ProcessFields(line, x, kind) # {} })
                c == Least(ProcessFields(line, b, kind))
            IN [port |-> line[b].num, matched |-> TRUE,
                process |-> Captured(line[c]), pid |-> line[c].num]

\* ssPattern
ssPattern(line) == FindWithProcess(line, ListenHeads(line), "users")

\* simplePattern: `LISTEN\s+\d+\s+\d+\s+.*?:(\d+)\s+`
simplePattern(line) ==
    LET H == { a \in ListenHeads(line) : PortFields(line, a + 2) # {} }
    IN IF H = {} THEN NoMatch
       ELSE [port |-> line[Least(PortFields(line, Least(H) + 2))].num,
             matched |-> TRUE, process |-> "unknown", pid |-> 0]

\* the pattern of parseNetstatOutput
netstatPattern(line) == FindWithProcess(line, WordHeads(line), "pidprog")

\* strings.ToLower on the process names below
ToLower(s) ==
    CASE s = "Nginx" -> "nginx"
      [] s = "LISTEN" -> "listen"
      [] OTHER -> s

\* services.detectByProcessName, on the lower-cased name
detectByProcessName(name) ==
    IF Contains(name, "docker") \/ Contains(name, "dockerd")
         \/ Contains(name, "containerd") THEN "docker"
    ELSE IF Contains(name, "nginx") THEN "nginx"
    ELSE IF Contains(name, "apache") \/ Contains(name, "httpd") THEN "apache"
    ELSE IF Contains(name, "mysql") \/ Contains(name, "mysqld") THEN "mysql"
    ELSE IF Contains(name, "postgres") \/ Contains(name, "postmaster")
         THEN "postgresql"
    ELSE IF Contains(name, "redis") \/ Contains(name, "redis-server")
         THEN "redis"
    ELSE IF Contains(name, "mongod") \/ Contains(name, "mongo") THEN "mongodb"
    ELSE IF Contains(name, "node") \/ Contains(name, "nodejs") THEN "nodejs"
    ELSE IF Contains(name, "python") \/ Contains(name, "python3") THEN "python"
    ELSE IF Contains(name, "php") \/ Contains(name, "php-fpm") THEN "php"
    ELSE "unknown"

\* services.detectByPort
detectByPort(port) ==
    CASE port = 3306 -> "mysql"
      [] port = 5432 -> "postgresql"
      [] port = 6379 -> "redis"
      [] port = 27017 -> "mongodb"
      [] port \in {2375, 2376} -> "docker"
      [] OTHER -> "unknown"

\* services.getServiceName
getServiceName(type) ==
    CASE type = "docker" -> "Docker"
      [] type = "nginx" -> "Nginx"
      [] type = "apache" -> "Apache"
      [] type = "mysql" -> "MySQL"
      [] type = "postgresql" -> "PostgreSQL"
      [] type = "redis" -> "Redis"
      [] type = "mongodb" -> "MongoDB"
      [] type = "nodejs" -> "Node.js"
      [] type = "python" -> "Python"
      [] type = "php" -> "PHP"
      [] OTHER -> "Unknown Service"

\* services.DetectService: the Type of the ServiceInfo it returns
DetectService(processName, port) ==
    LET byName == detectByProcessName(ToLower(processName))
    IN IF byName = "unknown" THEN detectByPort(port) ELSE byName

\* a slip: every port is monitored, whatever the filter
shouldMonitorPort_Always(port, portsToMonitor) == TRUE

\* shouldMonitorPort
shouldMonitorPort(port, portsToMonitor) ==
    \/ Len(portsToMonitor) = 0
    \/ \E i \in DOMAIN portsToMonitor : portsToMonitor[i] = port

\* the models.PortInfo that the parsers build from a match m of a line
PortInfo(m, protocol) ==
    LET type == DetectService(m.process, m.port)
    IN [Protocol |-> protocol, Port |-> m.port, Process |-> m.process,
        PID |-> m.pid,
        ServiceType |-> IF type # "unknown" THEN type ELSE "",
        ServiceName |-> IF type # "unknown" THEN getServiceName(type) ELSE ""]

\* one round of the loop of parseSSOutput: the records (none or one) that
\* the line adds
ssLine(line, portsToMonitor) ==
    IF ~LineContains(line, "LISTEN") THEN <<>>
    ELSE LET m == IF ssPattern(line).matched THEN ssPattern(line)
                  ELSE simplePattern(line)
         IN IF ~m.matched \/ m.port = OutOfRange
                 \/ ~shouldMonitorPort(m.port, portsToMonitor)
            THEN <<>>
            ELSE << PortInfo(m, IF LineContains(line, "udp")
                                THEN "udp" ELSE "tcp") >>

\* one round of the loop of parseNetstatOutput
netstatLine(line, portsToMonitor) ==
    IF ~LineContains(line, "LISTEN") /\ ~LineContains(line, "listening")
    THEN <<>>
    ELSE LET m == netstatPattern(line)
         IN IF ~m.matched \/ m.port = OutOfRange
                 \/ ~shouldMonitorPort(m.port, portsToMonitor)
            THEN <<>>
            ELSE << PortInfo(m, IF LineContains(line, "udp")
                                     \/ LineContains(line, "UDP")
                                THEN "udp" ELSE "tcp") >>

\* parseSSOutput: the records of the lines, in the order of the lines
RECURSIVE parseSSOutput(_, _)
parseSSOutput(output, portsToMonitor) ==
    IF output = <<>> THEN <<>>
    ELSE ssLine(Head(output), portsToMonitor)
           \o parseSSOutput(Tail(output), portsToMonitor)

\* parseNetstatOutput
RECURSIVE parseNetstatOutput(_, _)
parseNetstatOutput(output, portsToMonitor) ==
    IF output = <<>> THEN <<>>
    ELSE netstatLine(Head(output), portsToMonitor)
           \o parseNetstatOutput(Tail(output), portsToMonitor)

\* "var ports []models.PortInfo" and append: nil while nothing was appended
Appended(records) == IF records = <<>> THEN NilSlice ELSE MkSlice(records)

\* a run of an external tool: cmd.Output() gives the output or an error
Ran(output) == [ok |-> TRUE, out |-> output]
NotRun == [ok |-> FALSE, out |-> <<>>]

\* getPortsWithNetstat: the output of the first variant that runs
FirstRun(runs) ==
    IF \A i \in DOMAIN runs : ~runs[i].ok THEN NotRun
    ELSE runs[Least({ i \in DOMAIN runs : runs[i].ok })]

\* a slip: netstat is asked as well when ss ran and listed no record
GetOpenPorts_WhenEmpty(tools, portsToMonitor) ==
    IF tools.ss.ok /\ parseSSOutput(tools.ss.out, portsToMonitor) # <<>>
    THEN [failed |-> FALSE, err |-> FALSE,
          val |-> Appended(parseSSOutput(tools.ss.out, portsToMonitor))]
    ELSE IF FirstRun(tools.netstat).ok
    THEN [failed |-> FALSE, err |-> FALSE,
          val |-> Appended(parseNetstatOutput(FirstRun(tools.netstat).out,
                                              portsToMonitor))]
    ELSE IF tools.ss.ok
    THEN [failed |-> FALSE, err |-> FALSE, val |-> NilSlice]
    ELSE [failed |-> TRUE, err |-> TRUE, val |-> NilSlice]

\* GetOpenPorts: ss first, netstat when ss did not run; (nil, err) when
\* neither ran
GetOpenPorts(tools, portsToMonitor) ==
    IF tools.ss.ok
    THEN [failed |-> FALSE, err |-> FALSE,
          val |-> Appended(parseSSOutput(tools.ss.out, portsToMonitor))]
    ELSE IF FirstRun(tools.netstat).ok
    THEN [failed |-> FALSE, err |-> FALSE,
          val |-> Appended(parseNetstatOutput(FirstRun(tools.netstat).out,
                                              portsToMonitor))]
    ELSE [failed |-> TRUE, err |-> TRUE, val |-> NilSlice]

\* lines of "ss -tulpn": a listener with its process, one without, the same
\* port on the IPv6 wildcard, a database, a port that is no int, a port
\* field at the very end of the line, a UDP socket (UNCONN) and the header
SSLines ==
    { <<Word("tcp"), Word("LISTEN"), Number(0), Number(128), AddrPort(80),
        AddrOther, Users("nginx", 1234)>>,
      <<Word("tcp"), Word("LISTEN"), Number(0), Number(128), AddrPort(22),
        AddrOther>>,
      <<Word("tcp"), Word("LISTEN"), Number(0), Number(511), AddrPort(80),
        AddrOther, Users("Nginx", 1234)>>,
      <<Word("tcp"), Word("LISTEN"), Number(0), Number(80), AddrPort(3306),
        AddrOther, Users("mysqld", 900)>>,
      <<Word("tcp"), Word("LISTEN"), Number(0), Number(128),
        AddrPort(OutOfRange), AddrOther, Users("nginx", 1234)>>,
      <<Word("tcp"), Word("LISTEN"), Number(0), Number(128), AddrPort(443)>>,
      <<Word("udp"), Word("UNCONN"), Number(0), Number(0), AddrPort(53),
        AddrOther, Users("dnsmasq", 800)>>,
      <<Word("Netid"), Word("State"), Word("Recv-Q"), Word("Send-Q")>> }

\* lines of netstat: a listener with its process, one without ("-"), a UDP
\* socket, a listener on tcp6, the BSD form without a colon, a UDP line of
\* a process called LISTEN, and a listener whose program name has a dash
NetstatLines ==
    { <<Word("tcp"), Number(0), Number(0), AddrPort(22), AddrOther,
        Word("LISTEN"), PidProg(700, "sshd")>>,
      <<Word("tcp"), Number(0), Number(0), AddrPort(80), AddrOther,
        Word("LISTEN"), Word("-")>>,
      <<Word("udp"), Number(0), Number(0), AddrPort(53), AddrOther,
        PidProg(800, "dnsmasq")>>,
      <<Word("tcp6"), Number(0), Number(0), AddrPort(80), AddrOther,
        Word("LISTEN"), PidProg(1234, "nginx")>>,
      <<Word("tcp4"), Number(0), Number(0), AddrDot(22), AddrOther,
        Word("LISTEN")>>,
      <<Word("udp"), Number(0), Number(0), AddrPort(6379), AddrOther,
        PidProg(900, "LISTEN")>>,
      <<Word("tcp"), Number(0), Number(0), AddrPort(6380), AddrOther,
        Word("LISTEN"), PidProg(901, "redis-server")>> }

\* tool outputs of at most n lines
Outputs(lines, n) == UNION { [1..k -> lines] : k \in 0..n }

\* the three variants of netstat, the first i - 1 of which do not run
NetstatRuns(i, output) ==
    [j \in 1..3 |-> IF j < i THEN NotRun
                    ELSE IF j = i THEN Ran(output) ELSE Ran(<<>>)]

\* what the tools of a host answer: ss runs; or ss does not and netstat
\* does in its i-th variant; or neither runs
ToolAnswers(n) ==
    { [ss |-> Ran(o), netstat |-> NetstatRuns(4, <<>>)] :
         o \in Outputs(SSLines, n) }
      \cup { [ss |-> NotRun, netstat |-> NetstatRuns(i, o)] :
                i \in 1..3, o \in Outputs(NetstatLines, n) }
      \cup { [ss |-> NotRun, netstat |-> NetstatRuns(4, <<>>)] }

\* a host where ss runs and prints nothing
QuietTools == [ss |-> Ran(<<>>), netstat |-> NetstatRuns(4, <<>>)]


-----------------------------------------------------------------------------
(* network: certificate check *)

\* time.Duration values of the certificate check, in whole seconds
Hour == 3600 * Second

\* the cleaning of a configured domain: TrimPrefix "https://", TrimPrefix
\* "http://", TrimSuffix "/", TrimSpace, on the entries below
CleanDomain(domain) ==
    CASE domain = "https://a.example/" -> "a.example"
      [] domain = "http://b.example" -> "b.example"
      [] domain = "https://" -> ""
      [] domain = " " -> ""
      [] OTHER -> domain

\* What the server of a domain answers to the TLS dial.  up: the dial and
\* the handshake go through; life: the seconds from the verification of the
\* certificate (inside the handshake) to its NotAfter; lag: the seconds from
\* that verification to the call of time.Until; organization and commonName
\* are those of the issuer.  crypto/tls rejects a certificate whose NotAfter
\* is before the instant of verification (InsecureSkipVerify is false).
Server(up, life, lag) ==
    [up |-> up, life |-> life, lag |-> lag, organization |-> <<"CA">>,
     commonName |-> "ca.example"]

Handshakes(srv) == srv.up /\ srv.life >= 0

\* int(d.Hours() / 24) of a duration d: int() cuts the fraction off
DaysOf(seconds) ==
    IF seconds >= 0 THEN seconds \div (24 * Hour)
    ELSE -((-seconds) \div (24 * Hour))

\* checkSingleSSL: (record, err); the times of the record are counted from
\* the verification of the certificate
NoSSLInfo == [Domain |-> "", ValidUntil |-> 0, DaysLeft |-> 0, Issuer |-> ""]
checkSingleSSL(domain, srv) ==
    IF ~Handshakes(srv)
    THEN [err |-> "failed to connect", info |-> NoSSLInfo]
    ELSE [err |-> "",
          info |-> [Domain |-> domain,
                    ValidUntil |-> srv.life,
                    DaysLeft |-> DaysOf(srv.life - srv.lag),
                    Issuer |-> IF Len(srv.organization) > 0
                               THEN srv.organization[1]
                               ELSE srv.commonName]]

\* the loop of CheckSSL over the domains: results, errors (the domain of
\* each) and the domains dialled, in order
NoChecks == [dialled |-> <<>>, results |-> <<>>, errors |-> <<>>]

\* a slip: the loop stops at the first domain that fails
RECURSIVE CheckEach_StopAtError(_, _, _)
CheckEach_StopAtError(domains, servers, acc) ==
    IF domains = <<>> THEN acc
    ELSE LET domain == CleanDomain(Head(domains))
             r == checkSingleSSL(domain, servers[domain])
         IN IF domain = ""
            THEN CheckEach_StopAtError(Tail(domains), servers, acc)
            ELSE IF r.err # ""
            THEN [acc EXCEPT !.dialled = Append(@, domain),
                             !.errors = Append(@, domain)]
            ELSE CheckEach_StopAtError(Tail(domains), servers,
                   [acc EXCEPT !.dialled = Append(@, domain),
                               !.results = Append(@, r.info)])

RECURSIVE CheckEach(_, _, _)
CheckEach(domains, servers, acc) ==
    IF domains = <<>> THEN acc
    ELSE LET domain == CleanDomain(Head(domains))
             r == checkSingleSSL(domain, servers[domain])
         IN IF domain = ""
            THEN CheckEach(Tail(domains), servers, acc)
            ELSE IF r.err # ""
            THEN CheckEach(Tail(domains), servers,
                   [acc EXCEPT !.dialled = Append(@, domain),
                               !.errors = Append(@, domain)])
            ELSE CheckEach(Tail(domains), servers,
                   [acc EXCEPT !.dialled = Append(@, domain),
                               !.results = Append(@, r.info)])

\* CheckSSL: (results, err); firstError is the domain of errors[0] when err
\* is not nil
CheckSSL(domains, servers) ==
    IF Len(domains) = 0
    THEN [failed |-> FALSE, err |-> FALSE, val |-> EmptySlice,
          dialled |-> <<>>, firstError |-> ""]
    ELSE LET c == CheckEach(domains, servers, NoChecks)
             fails == Len(c.errors) > 0 /\ Len(c.results) = 0
         IN [failed |-> fails, err |-> fails, val |-> Appended(c.results),
             dialled |-> c.dialled,
             firstError |-> IF fails THEN c.errors[1] ELSE ""]

\* What CheckSSL returns in one cycle, by the list of domains: an empty
\* list for no domain; nil without error when every entry is blank after
\* cleaning; else a list of records, or (nil, first error) when every
\* domain that is dialled fails
SSLOutcomes(domains) ==
    IF Len(domains) = 0
    THEN { [failed |-> FALSE, err |-> FALSE, val |-> EmptySlice] }
    ELSE IF \A i \in DOMAIN domains : CleanDomain(domains[i]) = ""
    THEN { [failed |-> FALSE, err |-> FALSE, val |-> NilSlice] }
    ELSE { [failed |-> TRUE, err |-> TRUE, val |-> NilSlice],
           [failed |-> FALSE, err |-> FALSE, val |-> MkSlice(<<"example.com">>)] }

\* the servers of the domains: each up with a certificate good for 90 days,
\* or not reachable
Domains == {"a.example", "b.example", "c.example"}
GoodServer == Server(TRUE, 90 * 24 * Hour, 0)
DownServer == Server(FALSE, 0, 0)
QuietServers == [d \in Domains |-> GoodServer]
ReachableOrNot == [Domains -> {GoodServer, DownServer}]

\* the server of a.example with a certificate at the end of its life: it
\* expired a second before the handshake, or expires 0 s, 1 s, a day less
\* one second, a day, a day and a second, or two days after it
Lives == {-1, 0, 1, 24 * Hour - 1, 24 * Hour, 24 * Hour + 1, 48 * Hour}
Expiring(n) ==
    { [QuietServers EXCEPT !["a.example"] = Server(TRUE, life, lag)] :
         life \in Lives, lag \in 0..n }

-----------------------------------------------------------------------------
(* logs: the Redaction Engine (sanitize), detectLogLevel, readLogFile,
   ReadAndSanitize.  A text is the sequence of its characters. *)

UpperCase ==
    <<"A", "B", "C", "D", "E", "F", "G", "H", "I", "J", "K", "L", "M", "N",
      "O", "P", "Q", "R", "S", "T", "U", "V", "W", "X", "Y", "Z">>
LowerCase ==
    <<"a", "b", "c", "d", "e", "f", "g", "h", "i", "j", "k", "l", "m", "n",
      "o", "p", "q", "r", "s", "t", "u", "v", "w", "x", "y", "z">>
DigitChars ==
    {"0", "1", "2", "3", "4", "5", "6", "7", "8", "9"}

Letters == { UpperCase[i] : i \in DOMAIN UpperCase }
              \cup { LowerCase[i] : i \in DOMAIN LowerCase }

\* the lower-case letter of each upper-case letter
FoldTable ==
    [c \in { UpperCase[i] : i \in DOMAIN UpperCase } |->
        LowerCase[CHOOSE i \in DOMAIN UpperCase : UpperCase[i] = c]]

\* the character as (?i) and strings.ToLower compare it
FoldChar(c) == IF c \in DOMAIN FoldTable THEN FoldTable[c] ELSE c

\* strings.ToLower(content)
Fold(s) == [i \in DOMAIN s |-> FoldChar(s[i])]

\* the character classes of the patterns: \s, [^\s"'], [^"],
\* [A-Za-z0-9\-._~+/], [A-Za-z0-9_-], [0-9A-Z], [^\n], [^-]
IsSpace(c) == c \in {" ", "\t", "\n", "\r", "\f"}
IsValueChar(c) == ~IsSpace(c) /\ c \notin {"\"", "'"}
NotQuote(c) == c # "\""
IsBearerChar(c) ==
    c \in Letters \cup DigitChars \cup {"-", ".", "_", "~", "+", "/"}
IsJwtChar(c) == c \in Letters \cup DigitChars \cup {"_", "-"}
IsKeyChar(c) == c \in DigitChars \cup { UpperCase[i] : i \in DOMAIN UpperCase }
NotNewline(c) == c # "\n"
NotDash(c) == c # "-"

\* the character at i, "" past the end of the text
At(s, i) == IF i \in DOMAIN s THEN s[i] ELSE ""

\* the word w stands at i, as written / whatever the case of the text
StartsAt(s, i, w) ==
    /\ i >= 1
    /\ i + Len(w) - 1 <= Len(s)
    /\ \A k \in DOMAIN w : s[i + k - 1] = w[k]
StartsAtFold(s, i, w) ==
    /\ i >= 1
    /\ i + Len(w) - 1 <= Len(s)
    /\ \A k \in DOMAIN w : FoldChar(s[i + k - 1]) = w[k]

\* strings.Contains(s, w)
HasSub(s, w) == \E i \in 1..(Len(s) - Len(w) + 1) : StartsAt(s, i, w)

\* the position after the longest run of characters of the class C from i
RunEnd(s, i, C(_)) ==
    LET stops == { j \in i..Len(s) : ~C(s[j]) }
    IN  IF stops = {} THEN (IF i > Len(s) THEN i ELSE Len(s) + 1)
        ELSE Least(stops)

\* the words of the patterns
PasswordWord == <<"p", "a", "s", "s", "w", "o", "r", "d">>
SecretWord == <<"s", "e", "c", "r", "e", "t">>
TokenWord == <<"t", "o", "k", "e", "n">>
BearerWord == <<"b", "e", "a", "r", "e", "r">>
JwtHead == <<"e", "y", "J">>
PemBegin == <<"-", "-", "-", "-", "-", "B", "E", "G", "I", "N">>
PemEnd == <<"-", "-", "-", "-", "-", "E", "N", "D">>
Dashes == <<"-", "-", "-", "-", "-">>
AwsHead == <<"A", "K", "I", "A">>
CriticalWord == <<"c", "r", "i", "t", "i", "c", "a", "l">>
PanicWord == <<"p", "a", "n", "i", "c">>
FatalWord == <<"f", "a", "t", "a", "l">>
ErrorWord == <<"e", "r", "r", "o", "r">>
ErrWord == <<"e", "r", "r">>
ExceptionWord == <<"e", "x", "c", "e", "p", "t", "i", "o", "n">>
WarnWord == <<"w", "a", "r", "n">>
WarningWord == <<"w", "a", "r", "n", "i", "n", "g">>
InfoWord == <<"i", "n", "f", "o">>
InformationWord == <<"i", "n", "f", "o", "r", "m", "a", "t", "i", "o", "n">>
\* api[_-]?key
ApiKey == <<"a", "p", "i", "k", "e", "y">>
Api_Key == <<"a", "p", "i", "_", "k", "e", "y">>
ApiDashKey == <<"a", "p", "i", "-", "k", "e", "y">>
ApiKeyWords == {ApiKey, Api_Key, ApiDashKey}

\* the replacements
Redacted ==
    <<"*", "*", "*", "R", "E", "D", "A", "C", "T", "E", "D", "*", "*", "*">>
JwtRedacted ==
    <<"*", "*", "*", "J", "W", "T", "_", "T", "O", "K", "E", "N", "_", "R",
      "E", "D", "A", "C", "T", "E", "D", "*", "*", "*">>
KeyRedacted ==
    <<"*", "*", "*", "P", "R", "I", "V", "A", "T", "E", "_", "K", "E", "Y",
      "_", "R", "E", "D", "A", "C", "T", "E", "D", "*", "*", "*">>
AwsRedacted ==
    <<"*", "*", "*", "A", "W", "S", "_", "K", "E", "Y", "_", "R", "E", "D",
      "A", "C", "T", "E", "D", "*", "*", "*">>
Stars == <<"*", "*", "*">>

\* A match of a pattern that starts at i: the text from i up to keep is the
\* group ${1} the replacement keeps, the text from keep up to upto is
\* replaced by the marker.  upto = 0: no match at i.
NoHit == [keep |-> 0, upto |-> 0]

\* `(?i)(key\s*[=:]\s*)([^\s"']+)`
KeyValueAt(s, i, keys) ==
    LET ks == { k \in keys : StartsAtFold(s, i, k) }
        a == RunEnd(s, i + Len(CHOOSE k \in ks : TRUE), IsSpace)
        b == RunEnd(s, a + 1, IsSpace)
        c == RunEnd(s, b, IsValueChar)
    IN  IF ks # {} /\ At(s, a) \in {"=", ":"} /\ c > b
        THEN [keep |-> b, upto |-> c] ELSE NoHit

\* `(?i)("key"\s*:\s*")[^"]+`
QuotedAt(s, i, keys) ==
    LET ks == { k \in keys : StartsAtFold(s, i + 1, k) }
        q == i + 1 + Len(CHOOSE k \in ks : TRUE)
        a == RunEnd(s, q + 1, IsSpace)
        b == RunEnd(s, a + 1, IsSpace)
        c == RunEnd(s, b + 1, NotQuote)
    IN  IF /\ At(s, i) = "\""
           /\ ks # {}
           /\ At(s, q) = "\""
           /\ At(s, a) = ":"
           /\ At(s, b) = "\""
           /\ c > b + 1
        THEN [keep |-> b + 1, upto |-> c] ELSE NoHit

\* `(?i)(bearer\s+)([A-Za-z0-9\-._~+/]+)`
BearerAt(s, i) ==
    LET a == i + Len(BearerWord)
        b == RunEnd(s, a, IsSpace)
        c == RunEnd(s, b, IsBearerChar)
    IN  IF StartsAtFold(s, i, BearerWord) /\ b > a /\ c > b
        THEN [keep |-> b, upto |-> c] ELSE NoHit

\* `(eyJ[A-Za-z0-9_-]+\.eyJ[A-Za-z0-9_-]+\.[A-Za-z0-9_-]+)`
JwtAt(s, i) ==
    LET a == RunEnd(s, i + Len(JwtHead), IsJwtChar)
        b == RunEnd(s, a + 1 + Len(JwtHead), IsJwtChar)
        c == RunEnd(s, b + 1, IsJwtChar)
    IN  IF /\ StartsAt(s, i, JwtHead)
           /\ a > i + Len(JwtHead)
           /\ At(s, a) = "."
           /\ StartsAt(s, a + 1, JwtHead)
           /\ b > a + 1 + Len(JwtHead)
           /\ At(s, b) = "."
           /\ c > b + 1
        THEN [keep |-> i, upto |-> c] ELSE NoHit

\* `(?s)-----BEGIN[^\n]+\n[^-]+\n-----END[^\n]+-----`: a is the newline that
\* ends the BEGIN line, d the first dash after it, e the end of the line of
\* d; the match ends with the last five dashes of that line
PemAt(s, i) ==
    LET a == RunEnd(s, i + Len(PemBegin), NotNewline)
        d == RunEnd(s, a + 1, NotDash)
        e == RunEnd(s, d + Len(PemEnd), NotNewline)
        closes == { j \in (d + Len(PemEnd) + 1)..(e - Len(Dashes)) :
                       StartsAt(s, j, Dashes) }
    IN  IF /\ StartsAt(s, i, PemBegin)
           /\ a > i + Len(PemBegin)
           /\ At(s, a) = "\n"
           /\ d >= a + 3
           /\ At(s, d - 1) = "\n"
           /\ StartsAt(s, d, PemEnd)
           /\ closes # {}
        THEN [keep |-> i,
              upto |-> (CHOOSE j \in closes : \A o \in closes : o <= j)
                         + Len(Dashes)]
        ELSE NoHit

\* `AKIA[0-9A-Z]{16}`
AwsAt(s, i) ==
    IF /\ StartsAt(s, i, AwsHead)
       /\ \A k \in 0..15 : IsKeyChar(At(s, i + Len(AwsHead) + k))
    THEN [keep |-> i, upto |-> i + Len(AwsHead) + 16] ELSE NoHit

\* the patterns of sanitize, in the order of the slice (l.125-147)
Patterns == 1..11

Match(r, s, i) ==
    CASE r = 1 -> KeyValueAt(s, i, {PasswordWord})
      [] r = 2 -> QuotedAt(s, i, {PasswordWord})
      [] r = 3 -> KeyValueAt(s, i, ApiKeyWords)
      [] r = 4 -> QuotedAt(s, i, ApiKeyWords)
      [] r = 5 -> KeyValueAt(s, i, {SecretWord})
      [] r = 6 -> QuotedAt(s, i, {SecretWord})
      [] r = 7 -> KeyValueAt(s, i, {TokenWord})
      [] r = 8 -> BearerAt(s, i)
      [] r = 9 -> JwtAt(s, i)
      [] r = 10 -> PemAt(s, i)
      [] r = 11 -> AwsAt(s, i)

Replacement(r) ==
    CASE r \in 1..8 -> Redacted
      [] r = 9 -> JwtRedacted
      [] r = 10 -> KeyRedacted
      [] r = 11 -> AwsRedacted

\* the matches among hits (the match at each position, NoHit where there
\* is none) from position from on: leftmost first, none overlapping
RECURSIVE Chain(_, _)
Chain(hits, from) ==
    LET S == { i \in DOMAIN hits : i >= from /\ hits[i].upto > 0 }
    IN  IF S = {} THEN <<>>
        ELSE <<[keep |-> hits[Least(S)].keep, upto |-> hits[Least(S)].upto,
                begin |-> Least(S)]>>
                \o Chain(hits, hits[Least(S)].upto)

\* the matches of pattern r in s
FindAll(r, s) == Chain([i \in DOMAIN s |-> Match(r, s, i)], 1)

\* s from position from on, with each of the matches replaced
RECURSIVE Rebuild(_, _, _, _)
Rebuild(s, hits, from, marker) ==
    IF hits = <<>> THEN SubSeq(s, from, Len(s))
    ELSE SubSeq(s, from, hits[1].keep - 1) \o marker
            \o Rebuild(s, Tail(hits), hits[1].upto, marker)

\* p.pattern.ReplaceAllString(s, p.replace)
ReplaceAllString(r, s) == Rebuild(s, FindAll(r, s), 1, Replacement(r))

\* "for _, p := range patterns": the patterns from r on, each applied to the
\* result of the one before
RECURSIVE ApplyPatterns(_, _)
ApplyPatterns(s, r) ==
    IF r \notin Patterns THEN s
    ELSE ApplyPatterns(ReplaceAllString(r, s), r + 1)

\* the word old at i
WordAt(s, i, old) ==
    IF StartsAt(s, i, old) THEN [keep |-> i, upto |-> i + Len(old)] ELSE NoHit

\* strings.ReplaceAll(s, old, new), old not empty
ReplaceAll(s, old, new) ==
    Rebuild(s, Chain([i \in DOMAIN s |-> WordAt(s, i, old)], 1), 1, new)

sanitize(content) ==
    ReplaceAll(ReplaceAll(ApplyPatterns(content, 1), PasswordWord, Stars),
               SecretWord, Stars)

\* the level names are strings of models.LogEntry; "" is unset
detectLogLevel(content) ==
    LET contentLower == Fold(content)
    IN  IF \/ HasSub(contentLower, CriticalWord)
           \/ HasSub(contentLower, PanicWord)
           \/ HasSub(contentLower, FatalWord)
        THEN "critical"
        ELSE IF \/ HasSub(contentLower, ErrorWord)
                \/ HasSub(contentLower, ErrWord)
                \/ HasSub(contentLower, ExceptionWord)
        THEN "error"
        ELSE IF \/ HasSub(contentLower, WarnWord)
                \/ HasSub(contentLower, WarningWord)
        THEN "warn"
        ELSE IF \/ HasSub(contentLower, InfoWord)
                \/ HasSub(contentLower, InformationWord)
        THEN "info"
        ELSE ""

\* strings.Join(lines, "\n")
RECURSIVE JoinLines(_)
JoinLines(lines) ==
    IF lines = <<>> THEN <<>>
    ELSE IF Len(lines) = 1 THEN lines[1]
    ELSE lines[1] \o <<"\n">> \o JoinLines(Tail(lines))

\* lines[len(lines)-maxLines:] when len(lines) > maxLines
LastLines(lines, maxLines) ==
    IF Len(lines) > maxLines
    THEN SubSeq(lines, Len(lines) - maxLines + 1, Len(lines))
    ELSE lines

\* A file of the host: its lines; whether os.Open and Stat succeed
\* (readable); whether stat.Size() is 1 MiB or more (large); how many of
\* its lines scanner.Scan() gives (scanned) and whether the scanner stopped
\* there with an error (scanErr: a line longer than the scanner's buffer of
\* 64 KiB, a failing read) or at the end of the file.  The few lines that
\* the model keeps of a file stand for lines of any length.
SizedFile(lines, isLarge, given, stopped) ==
    [lines |-> lines, readable |-> TRUE, large |-> isLarge,
     scanned |-> given, scanErr |-> stopped]
LogFile(lines) == SizedFile(lines, FALSE, Len(lines), FALSE)
NoLogFile ==
    [lines |-> <<>>, readable |-> FALSE, large |-> FALSE,
     scanned |-> 0, scanErr |-> FALSE]

\* for scanner.Scan() { lines = append(lines, scanner.Text()) }
Scanned(f) == SubSeq(f.lines, 1, f.scanned)

\* readLastLinesSimple: the last maxLines of the lines the scanner gave;
\* scanner.Err() is not read
readLastLinesSimple(f, maxLines) ==
    LET allLines == Scanned(f)
    IN  IF Len(allLines) <= maxLines THEN allLines
        ELSE SubSeq(allLines, Len(allLines) - maxLines + 1, Len(allLines))

\* readLogFile: (entry, err); found is FALSE for the nil entry.  A file
\* below 1 MiB is scanned here and the error of the scanner returned; a
\* larger one is left to readLastLinesSimple.
NoLogEntry == [Path |-> "", Message |-> <<>>, Lines |-> 0, Level |-> ""]
readLogFile(path, maxLines, files) ==
    LET f == files[path]
    IN  IF ~f.readable
        THEN [err |-> "open", found |-> FALSE, entry |-> NoLogEntry]
        ELSE IF ~f.large /\ f.scanErr
        THEN [err |-> "scan", found |-> FALSE, entry |-> NoLogEntry]
        ELSE LET lines == IF f.large THEN readLastLinesSimple(f, maxLines)
                          ELSE LastLines(Scanned(f), maxLines)
                 content == JoinLines(lines)
             IN  IF Len(lines) = 0
                 THEN [err |-> "", found |-> FALSE, entry |-> NoLogEntry]
                 ELSE [err |-> "", found |-> TRUE,
                       entry |-> [Path |-> path,
                                  Message |-> sanitize(content),
                                  Lines |-> Len(lines),
                                  Level |-> detectLogLevel(content)]]

\* the loop of ReadAndSanitize over the paths
RECURSIVE ReadEach(_, _, _)
ReadEach(paths, maxLines, files) ==
    IF paths = <<>> THEN <<>>
    ELSE LET r == readLogFile(Head(paths), maxLines, files)
             rest == ReadEach(Tail(paths), maxLines, files)
         IN  IF Head(paths) = "" THEN rest
             ELSE IF r.err # "" THEN rest
             ELSE IF r.found THEN <<r.entry>> \o rest
             ELSE rest

\* ReadAndSanitize: (entries, nil); the source fails to observe the host when
\* paths are named and readLogFile returns an error for each of them
ReadAndSanitize(paths, maxLines, files) ==
    IF Len(paths) = 0
    THEN [failed |-> FALSE, err |-> FALSE, val |-> EmptySlice]
    ELSE LET max == IF maxLines <= 0 THEN 100 ELSE maxLines
         IN  [failed |-> /\ \E i \in DOMAIN paths : paths[i] # ""
                         /\ \A i \in DOMAIN paths :
                               \/ paths[i] = ""
                               \/ readLogFile(paths[i], max, files).err # "",
              err |-> FALSE,
              val |-> Appended(ReadEach(paths, max, files))]

\* What ReadAndSanitize returns in one cycle, by the list of paths: never an
\* error; an empty list for no path; nil when every path is blank and
\* skipped; else nil when no path could be read or when the files that
\* could be read have no line, or a list of records
LogsOutcomes(paths) ==
    IF Len(paths) = 0
    THEN { [failed |-> FALSE, err |-> FALSE, val |-> EmptySlice] }
    ELSE IF \A i \in DOMAIN paths : paths[i] = ""
    THEN { [failed |-> FALSE, err |-> FALSE, val |-> NilSlice] }
    ELSE { [failed |-> TRUE, err |-> FALSE, val |-> NilSlice],
           [failed |-> FALSE, err |-> FALSE, val |-> NilSlice],
           [failed |-> FALSE, err |-> FALSE, val |-> MkSlice(<<"/var/log/syslog">>)] }

\* What applications write into a log: lines that carry the value X in one
\* of the forms the Redaction Engine knows, alone or nested in another key,
\* and a line without a value.
AssignText == <<"p", "a", "s", "s", "w", "o", "r", "d", "=">>
JsonText ==
    <<"\"", "p", "a", "s", "s", "w", "o", "r", "d", "\"", ":", " ", "\"">>
ApiKeyText == <<"a", "p", "i", "_", "k", "e", "y", "=">>
BearerText ==
    <<"A", "u", "t", "h", "o", "r", "i", "z", "a", "t", "i", "o", "n", ":",
      " ", "B", "e", "a", "r", "e", "r", " ">>
JwtText == <<"j", "w", "t", " ">>
PemFirst ==
    <<"-", "-", "-", "-", "-", "B", "E", "G", "I", "N", " ", "P", "R", "I",
      "V", "A", "T", "E", " ", "K", "E", "Y", "-", "-", "-", "-", "-">>
PemBody == <<"M", "I", "I">>
PemLast ==
    <<"-", "-", "-", "-", "-", "E", "N", "D", " ", "P", "R", "I", "V", "A",
      "T", "E", " ", "K", "E", "Y", "-", "-", "-", "-", "-">>
TokenBearerText ==
    <<"t", "o", "k", "e", "n", ":", " ", "B", "e", "a", "r", "e", "r", " ">>
SecretAssignText ==
    <<"s", "e", "c", "r", "e", "t", ":", " ", "p", "a", "s", "s", "w", "o",
      "r", "d", "=">>
PlainText ==
    <<"r", "e", "q", "u", "e", "s", "t", " ", "s", "e", "r", "v", "e", "d">>

JwtOf(X) == JwtHead \o X \o <<".">> \o JwtHead \o X \o <<".">> \o X

FormNames ==
    {"assign", "json", "apikey", "bearer", "jwt", "pem", "tokenBearer",
     "secretAssign", "plain"}

\* the lines of one form
Form(f, X) ==
    CASE f = "assign" -> <<AssignText \o X>>
      [] f = "json" -> <<JsonText \o X \o <<"\"">>>>
      [] f = "apikey" -> <<ApiKeyText \o X>>
      [] f = "bearer" -> <<BearerText \o X>>
      [] f = "jwt" -> <<JwtText \o JwtOf(X)>>
      [] f = "pem" -> <<PemFirst, PemBody \o X, PemLast>>
      [] f = "tokenBearer" -> <<TokenBearerText \o X>>
      [] f = "secretAssign" -> <<SecretAssignText \o X>>
      [] f = "plain" -> <<PlainText>>

\* the values: one that reads like nothing, one that holds "err"
ValueA == <<"x", "9", "Q">>
ValueB == <<"e", "r", "r", "7">>
Values == {ValueA, ValueB}

\* the lines of a log written with the forms fs, in order
RECURSIVE LogText(_, _)
LogText(fs, X) ==
    IF fs = <<>> THEN <<>> ELSE Form(Head(fs), X) \o LogText(Tail(fs), X)

FormLists(n) == UNION { [1..k -> FormNames] : k \in 0..n }

-----------------------------------------------------------------------------
(* the hosts *)

\* a host whose tools print nothing and whose servers are up
\* the log files of the host: the system log as the applications wrote it
\* (written: with which forms and value), no other file
Syslog == "/var/log/syslog"
LogPathNames == {Syslog, "/var/log/auth.log"}
FilesWith(lines) == [p \in LogPathNames |->
                        IF p = Syslog THEN LogFile(lines) ELSE NoLogFile]
NothingWritten == [forms |-> <<>>, value |-> <<>>]
QuietFiles == FilesWith(<<>>)

\* a host whose tools print nothing, whose servers are up and whose system
\* log is empty
QuietHost ==
    [tools |-> QuietTools, servers |-> QuietServers, files |-> QuietFiles,
     written |-> NothingWritten]

PortHosts == { [QuietHost EXCEPT !.tools = t] : t \in ToolAnswers(MaxLines) }

\* what one run of a tool gives: an error, or an output of no line or of one
\* line of L
ToolRuns(L) == {NotRun} \cup { Ran(o) : o \in Outputs(L, 1) }

\* hosts on which ss and each of the three variants of netstat run or fail
\* independently of one another
FallbackHosts ==
    { [QuietHost EXCEPT !.tools = [ss |-> s, netstat |-> n]] :
         s \in ToolRuns(SSLines), n \in [1..3 -> ToolRuns(NetstatLines)] }

\* lines that a tool cannot be kept from printing: the port field 0, and a
\* port field above 65535; the digits spell an int in both
WidePortLines ==
    { <<Word("tcp"), Word("LISTEN"), Number(0), Number(128), AddrPort(0),
        AddrOther>>,
      <<Word("tcp"), Word("LISTEN"), Number(0), Number(128), AddrPort(70000),
        AddrOther, Users("nginx", 1234)>> }
WidePortNetstatLines ==
    { <<Word("tcp"), Number(0), Number(0), AddrPort(0), AddrOther,
        Word("LISTEN"), PidProg(700, "sshd")>>,
      <<Word("tcp"), Number(0), Number(0), AddrPort(70000), AddrOther,
        Word("LISTEN"), PidProg(1234, "nginx")>> }

\* lines of netstat whose first column is no protocol: a dash, which no
\* `(\w+)` matches, and an address that ends in digits, which one does
OddHeadNetstatLines ==
    { <<Word("-"), Number(0), Number(0), AddrPort(22), AddrOther,
        Word("LISTEN"), PidProg(700, "sshd")>>,
      <<AddrDot(22), Number(0), Number(0), AddrPort(22), AddrDot(22),
        Word("LISTEN"), PidProg(700, "sshd")>> }

\* hosts whose tool prints any text of at most n lines
AnyTextHosts(n) ==
    { [QuietHost EXCEPT !.tools = [ss |-> Ran(o),
                                   netstat |-> NetstatRuns(4, <<>>)]] :
         o \in Outputs(SSLines \cup WidePortLines, n) }
      \cup { [QuietHost EXCEPT !.tools = [ss |-> NotRun,
                                          netstat |-> NetstatRuns(1, o)]] :
                o \in Outputs(NetstatLines \cup WidePortNetstatLines
                                 \cup OddHeadNetstatLines, n) }

SSLHosts ==
    { [QuietHost EXCEPT !.servers = s] : s \in ReachableOrNot \cup Expiring(MaxLag) }

LogHosts ==
    { [QuietHost EXCEPT !.files = FilesWith(LogText(fs, X)),
                        !.written = [forms |-> fs, value |-> X]] :
         fs \in FormLists(MaxForms), X \in Values }

\* hosts whose two log files each cannot be opened or hold the first k of the
\* lines "one", "two", "three", "four", k = 0..n, below or above 1 MiB,
\* scanned to the end or up to an error after any number of lines
PlainLines ==
    <<<<"o", "n", "e">>, <<"t", "w", "o">>, <<"t", "h", "r", "e", "e">>,
      <<"f", "o", "u", "r">>>>
FileStates(n) ==
    {NoLogFile}
      \cup { SizedFile(SubSeq(PlainLines, 1, k), g, k, FALSE) :
                k \in 0..n, g \in BOOLEAN }
      \cup UNION { { SizedFile(SubSeq(PlainLines, 1, k), g, j, TRUE) :
                       j \in 0..k, g \in BOOLEAN } : k \in 0..n }
FileHosts ==
    { [QuietHost EXCEPT !.files = f] : f \in [LogPathNames -> FileStates(MaxFileLines)] }

\* hosts whose system log is one line of at most n words, some of them the
\* keywords of detectLogLevel in upper, lower or mixed case, one ("stderr")
\* that holds "err" without being a keyword of the spec, one plain
WordNames ==
    {"CRITICAL", "panic", "Fatal", "ERROR", "exception", "Warning",
     "warn", "INFO", "information", "stderr", "served"}
WordText(w) ==
    CASE w = "CRITICAL" -> <<"C", "R", "I", "T", "I", "C", "A", "L">>
      [] w = "panic" -> <<"p", "a", "n", "i", "c">>
      [] w = "Fatal" -> <<"F", "a", "t", "a", "l">>
      [] w = "ERROR" -> <<"E", "R", "R", "O", "R">>
      [] w = "exception" -> <<"e", "x", "c", "e", "p", "t", "i", "o", "n">>
      [] w = "Warning" -> <<"W", "a", "r", "n", "i", "n", "g">>
      [] w = "warn" -> <<"w", "a", "r", "n">>
      [] w = "INFO" -> <<"I", "N", "F", "O">>
      [] w = "information" -> <<"i", "n", "f", "o", "r", "m", "a", "t", "i", "o", "n">>
      [] w = "stderr" -> <<"s", "t", "d", "e", "r", "r">>
      [] w = "served" -> <<"s", "e", "r", "v", "e", "d">>
RECURSIVE WordsLine(_)
WordsLine(ws) ==
    IF Len(ws) = 1 THEN WordText(ws[1])
    ELSE WordText(ws[1]) \o <<" ">> \o WordsLine(Tail(ws))
WordLists(n) == UNION { [1..k -> WordNames] : k \in 1..n }
SeverityHosts ==
    { [QuietHost EXCEPT !.files = FilesWith(<<WordsLine(ws)>>),
                        !.written = [forms |-> ws, value |-> <<>>]] :
         ws \in WordLists(MaxWords) }

-----------------------------------------------------------------------------
(* Initial state: main has loaded the configuration, created the client,   *)
(* the context, the handler and the channels, and has started the          *)
(* collectionLoop goroutine; main waits in its select.                     *)

\* the configurations the agent is started with
FullConfig ==
    [APIKey |-> "key1", BackendURL |-> UrlA, IntervalSeconds |-> 60,
     Hostname |-> "host1", LogPaths |-> <<"/var/log/syslog">>,
     LogMaxLines |-> 200, SSLDomains |-> <<"a.example">>,
     PortsToMonitor |-> <<22>>]
MinimalConfig ==
    [ZeroConfig EXCEPT !.APIKey = "key1", !.BackendURL = UrlA,
                       !.IntervalSeconds = 10]
StartConfigs == {FullConfig, MinimalConfig}

\* the ports_to_monitor of the configurations
PortFilters == {<<>>, <<80>>, <<22, 80>>, <<443, 8080>>}
FilterConfigs == { [FullConfig EXCEPT !.PortsToMonitor = f] : f \in PortFilters }

\* the ssl_domains of the configurations: at most n entries, plain, with a
\* scheme, or blank
DomainEntries == {"a.example", "http://b.example", "c.example", " "}
DomainLists(n) == UNION { [1..k -> DomainEntries] : k \in 0..n }
DomainConfigs(n) ==
    { [FullConfig EXCEPT !.SSLDomains = l] : l \in DomainLists(n) }

\* the log_paths and log_max_lines of the configurations: at most n paths,
\* one of them empty; no limit (SetDefaults makes it 100), 1 or 2 lines
PathEntries == LogPathNames \cup {""}
PathLists(n) == UNION { [1..k -> PathEntries] : k \in 0..n }
LineLimits == {0, 1, 2}
PathConfigs(n) ==
    { [FullConfig EXCEPT !.LogPaths = l, !.LogMaxLines = m] :
         l \in PathLists(n), m \in LineLimits }

\* nothing has run yet: no signal, no tick, no cycle, no request, no task
InitIdle ==
    /\ cancelled = FALSE
    /\ sigChan = 0
    /\ sigsSent = 0
    /\ done = FALSE
    /\ tickerOn = FALSE
    /\ tickerC = 0
    /\ cycles = 0
    /\ failed = {}
    /\ gathered = NoLocals
    /\ payload = NoPayload
    /\ sendCalls = 0
    /\ sentPayload = NoPayload
    /\ stamp = NoStamp
    /\ wire = NoRequest
    /\ polls = 0
    /\ polled = NoPoll
    /\ pollErr = FALSE
    /\ attempt = 0
    /\ lastErr = NoErr
    /\ sendAttempts = 0
    /\ sendFailures = 0
    /\ lastResp = NetErr
    /\ slept = <<>>
    /\ sendResult = Pending
    /\ tasks = <<>>
    /\ restartTimers = 0

\* main reaches its select only if config.Load succeeded (l.28-31); the
\* agent runs on one of the hosts H
InitOn(F, H) ==
    /\ file \in { FileOf(c) : c \in F }
    /\ Load(file).err = ""
    /\ cfg = Load(file).cfg
    /\ mainPc = "select"
    /\ loopPc = "start"
    /\ InitIdle
    /\ hostState \in H

\* the same, from a file that the operator wrote by hand: one of the files G
InitFiles(G) ==
    /\ file \in G
    /\ Load(file).err = ""
    /\ cfg = Load(file).cfg
    /\ mainPc = "select"
    /\ loopPc = "start"
    /\ InitIdle
    /\ hostState = QuietHost

InitFrom(F) == InitOn(F, {QuietHost})

Init == InitFrom({FullConfig})

\* the files the agent can find at its start: the valid ones, and ones that
\* Load rejects
UnknownFieldFile ==
    [state |-> "complete",
     obj |-> [api_key |-> Str("key1"), backend_url |-> Str(UrlA),
              interval_seconds |-> Whole(60), hostname |-> Absent,
              log_paths |-> Absent, log_max_lines |-> Absent,
              ssl_domains |-> Absent, ports_to_monitor |-> Absent,
              comment |-> Str("x")]]
IllTypedFile ==
    [state |-> "complete",
     obj |-> [Encode(FullConfig) EXCEPT !.interval_seconds = Str("60")]]
\* a file with null under optional keys, and one with null under a required
\* key
NullFile ==
    [state |-> "complete",
     obj |-> [Encode(FullConfig) EXCEPT !.hostname = Null,
                                        !.log_paths = Arr(<<Null, Str("/var/log/syslog")>>),
                                        !.log_max_lines = Null,
                                        !.ports_to_monitor = Null]]
NullIntervalFile ==
    [state |-> "complete",
     obj |-> [Encode(FullConfig) EXCEPT !.interval_seconds = Null]]
NoApiKeyFile == FileOf([FullConfig EXCEPT !.APIKey = ""])
NoUrlFile == FileOf([FullConfig EXCEPT !.BackendURL = NoUrl])
PlainUrlFile == FileOf([FullConfig EXCEPT !.BackendURL = UrlPlain])
ShortUrlFile == FileOf([FullConfig EXCEPT !.BackendURL = <<"h", "t", "t", "p", "s">>])
ZeroIntervalFile == FileOf([FullConfig EXCEPT !.IntervalSeconds = 0])
ShortIntervalFiles ==
    { FileOf([FullConfig EXCEPT !.IntervalSeconds = n]) : n \in {1, 5, 9} }
ValidFiles == { FileOf(c) : c \in StartConfigs }
StartFiles ==
    ValidFiles \cup ShortIntervalFiles
      \cup {MissingFile, EmptyFile, UnknownFieldFile, IllTypedFile,
            NullFile, NullIntervalFile,
            NoApiKeyFile, NoUrlFile, PlainUrlFile, ShortUrlFile,
            ZeroIntervalFile}

\* files that Load accepts, as an operator writes them: every optional key
\* left out, written as null or with its empty value, or written with a
\* value; a log_max_lines that is zero, negative, or positive
OperatorFiles ==
    { [state |-> "complete",
       obj |-> [api_key |-> Str("key1"), backend_url |-> Str(UrlA),
                interval_seconds |-> Whole(i), hostname |-> h,
                log_paths |-> p, log_max_lines |-> m,
                ssl_domains |-> d, ports_to_monitor |-> t]] :
        i \in {10, 60},
        h \in {Absent, Null, Str(""), Str("host1")},
        p \in {Absent, Null, Arr(<<>>), StrArr(<<"/var/log/syslog">>),
               Arr(<<Null, Str("/var/log/syslog")>>)},
        m \in {Absent, Null, Whole(0), Whole(-5), Whole(1), Whole(100),
               Whole(250)},
        d \in {Absent, Arr(<<>>), StrArr(<<"a.example">>)},
        t \in {Absent, Arr(<<>>), IntArr(<<22>>), IntArr(<<80, 22>>)} }

\* the process at the first line of main: config.json is whatever the
\* operator left, nothing is loaded, the collectionLoop goroutine is not
\* started
InitStartup ==
    /\ file \in StartFiles
    /\ cfg = ZeroConfig
    /\ mainPc = "load"
    /\ loopPc = "none"
    /\ InitIdle
    /\ hostState = QuietHost

\* the locals of a fresh collectAndSend call
FreshCycle ==
    /\ failed' = {}
    /\ gathered' = NoLocals
    /\ payload' = NoPayload
    /\ sendCalls' = 0
    /\ sentPayload' = NoPayload
    /\ stamp' = NoStamp
    /\ wire' = NoRequest
    /\ polls' = 0
    /\ polled' = NoPoll
    /\ pollErr' = FALSE
    /\ attempt' = 0
    /\ lastErr' = NoErr
    /\ sendAttempts' = 0
    /\ sendFailures' = 0
    /\ lastResp' = NetErr
    /\ slept' = <<>>
    /\ sendResult' = Pending

-----------------------------------------------------------------------------
(* main *)

\* cfg, err := config.Load("config.json"): log.Fatalf ends the process on an
\* error; else main goes on to create the client, the context and the
\* handler, starts collectionLoop and waits in its select
MainLoad ==
    /\ mainPc = "load"
    /\ LET r == Load(file) IN
         IF r.err # ""
         THEN /\ mainPc' = "exited"
              /\ UNCHANGED <<hostState, stamp, wire, cfg, loopPc>>
         ELSE /\ mainPc' = "select"
              /\ cfg' = r.cfg
              /\ loopPc' = "start"
    /\ UNCHANGED <<hostState, stamp, wire, file, sigChan, sigsSent, cancelled, done, tickerOn, tickerC,
                   cycles, cycleVars, sendVars, taskVars>>

\* the operating system delivers SIGINT or SIGTERM; signal.Notify does not
\* block: a signal that finds sigChan full is dropped
OSSignal ==
    /\ Alive
    /\ sigsSent < MaxSignals
    /\ sigsSent' = sigsSent + 1
    /\ sigChan' = 1
    /\ UNCHANGED <<hostState, stamp, wire, confVars, mainPc, loopPc, cancelled, done, tickerOn, tickerC, cycles,
                   cycleVars, sendVars, taskVars>>

\* case sig := <-sigChan: cancel(), then wait for done
MainSignal ==
    /\ mainPc = "select"
    /\ sigChan > 0
    /\ sigChan' = sigChan - 1
    /\ cancelled' = TRUE
    /\ mainPc' = "waitDone"
    /\ UNCHANGED <<hostState, stamp, wire, confVars, sigsSent, loopPc, done, tickerOn, tickerC, cycles,
                   cycleVars, sendVars, taskVars>>

\* <-done after the signal; main returns
MainWaitDone ==
    /\ mainPc = "waitDone"
    /\ done
    /\ mainPc' = "exited"
    /\ UNCHANGED <<hostState, stamp, wire, confVars, sigChan, sigsSent, loopPc, cancelled, done, tickerOn,
                   tickerC, cycles, cycleVars, sendVars, taskVars>>

\* case <-done: main returns
MainDone ==
    /\ mainPc = "select"
    /\ done
    /\ mainPc' = "exited"
    /\ UNCHANGED <<hostState, stamp, wire, confVars, sigChan, sigsSent, loopPc, cancelled, done, tickerOn,
                   tickerC, cycles, cycleVars, sendVars, taskVars>>

-----------------------------------------------------------------------------
(* collectionLoop *)

\* "Immediate first collection": collectAndSend is entered
LoopFirstCycle ==
    /\ Alive
    /\ loopPc = "start"
    /\ loopPc' = "poll"
    /\ cycles' = 1
    /\ FreshCycle
    /\ UNCHANGED <<hostState, mainVars, confVars, cancelled, done, tickerOn, tickerC, taskVars>>

\* a slip: "return" when collectAndSend returned an error
CycleReturn_ReturnOnErr ==
    /\ Alive
    /\ loopPc = "ret"
    /\ IF sendResult.ret # "nil"
       THEN /\ loopPc' = "stopped"
            /\ done' = TRUE
            /\ UNCHANGED tickerOn
       ELSE /\ loopPc' = "select"
            /\ tickerOn' = TRUE
            /\ UNCHANGED done
    /\ FreshCycle
    /\ UNCHANGED <<hostState, mainVars, confVars, cancelled, tickerC, cycles, taskVars>>

\* collectAndSend returns to collectionLoop (its error is only logged); after
\* the first cycle the ticker is created; the loop reaches its select
CycleReturn ==
    /\ Alive
    /\ loopPc = "ret"
    /\ loopPc' = "select"
    /\ tickerOn' = TRUE
    /\ FreshCycle
    /\ UNCHANGED <<hostState, mainVars, confVars, cancelled, done, tickerC, cycles,
                   taskVars>>

\* the ticker fires; a tick that finds ticker.C full is dropped; the model
\* stops the ticker once n cycles have been started or announced
TickUpTo(n) ==
    /\ Alive
    /\ tickerOn
    /\ tickerC = 0
    /\ cycles + tickerC < n
    /\ tickerC' = 1
    /\ UNCHANGED <<hostState, stamp, wire, mainVars, confVars, loopPc, cancelled, done, tickerOn, cycles,
                   cycleVars, sendVars, taskVars>>

Tick == TickUpTo(MaxCycles)

\* a slip: no "defer close(done)"
LoopCtxDone_NoClose ==
    /\ Alive
    /\ loopPc = "select"
    /\ cancelled
    /\ loopPc' = "stopped"
    /\ tickerOn' = FALSE
    /\ UNCHANGED <<hostState, stamp, wire, mainVars, confVars, cancelled, done, tickerC, cycles, cycleVars,
                   sendVars, taskVars>>

\* case <-ctx.Done(): return; deferred ticker.Stop() and close(done)
LoopCtxDone ==
    /\ Alive
    /\ loopPc = "select"
    /\ cancelled
    /\ loopPc' = "stopped"
    /\ tickerOn' = FALSE
    /\ done' = TRUE
    /\ UNCHANGED <<hostState, stamp, wire, mainVars, confVars, cancelled, tickerC, cycles, cycleVars, sendVars,
                   taskVars>>

\* a slip: a tick starts collectAndSend wherever the loop is
LoopTick_Anywhere ==
    /\ Alive
    /\ loopPc \notin {"start", "stopped"}
    /\ tickerC > 0
    /\ tickerC' = tickerC - 1
    /\ loopPc' = "poll"
    /\ cycles' = cycles + 1
    /\ FreshCycle
    /\ UNCHANGED <<hostState, mainVars, confVars, cancelled, done, tickerOn, taskVars>>

\* case <-ticker.C: collectAndSend is entered.  A select with several ready
\* cases picks one of them at random, so this case can be taken while
\* ctx.Done() is ready too.
LoopTick ==
    /\ Alive
    /\ loopPc = "select"
    /\ tickerC > 0
    /\ tickerC' = tickerC - 1
    /\ loopPc' = "poll"
    /\ cycles' = cycles + 1
    /\ FreshCycle
    /\ UNCHANGED <<hostState, mainVars, confVars, cancelled, done, tickerOn, taskVars>>

-----------------------------------------------------------------------------
(* collectAndSend *)

\* cmds, err := client.CheckCommands(): one GET, answered by r; the model
\* bounds the commands of a run by n
PollCommands(C, n, S) ==
    /\ Alive
    /\ loopPc = "poll"
    /\ \E r \in PollAnswers(S, C, n) :
         /\ Len(tasks) + Len(r.cmds) <= n
         /\ polled' = [cmds |-> CheckCommands(r).cmds, answer |-> r]
         /\ pollErr' = (CheckCommands(r).err # "")
    /\ polls' = polls + 1
    /\ loopPc' = "dispatch"
    /\ UNCHANGED <<hostState, stamp, wire, mainVars, confVars, cancelled, done, tickerOn,
                   tickerC, cycles, failed, gathered, payload, sendCalls,
                   sentPayload, sendVars, taskVars>>

\* "if err == nil && len(cmds) > 0": one goroutine per command; on an error,
\* or an empty list, nothing is started
DispatchCommands ==
    /\ Alive
    /\ loopPc = "dispatch"
    /\ tasks' = IF ~pollErr /\ Len(polled.cmds) > 0
                THEN SpawnAll(tasks, polled.cmds)
                ELSE tasks
    /\ polled' = NoPoll
    /\ pollErr' = FALSE
    /\ loopPc' = "system"
    /\ UNCHANGED <<hostState, stamp, wire, mainVars, confVars, cancelled, done, tickerOn,
                   tickerC, cycles, failed, gathered, payload, sendCalls,
                   sentPayload, polls, sendVars, restartTimers>>

\* a slip: the cycle waits for its command goroutines (a WaitGroup) before
\* it gathers data
CollectSystem_AfterTasks(O) ==
    /\ Alive
    /\ loopPc = "system"
    /\ \A i \in DOMAIN tasks : tasks[i].pc = "done"
    /\ \E res \in O :
         /\ gathered' = [gathered EXCEPT !.system = res.val]
         /\ failed' = IF res.failed THEN failed \cup {"system"} ELSE failed
         /\ loopPc' = AfterSource("ports", res)
    /\ UNCHANGED <<hostState, stamp, wire, mainVars, confVars, cancelled, done, tickerOn,
                   tickerC, cycles, payload, sendCalls, sentPayload, pollVars,
                   sendVars, taskVars>>

\* sysMetrics, err := metrics.CollectSystem()
CollectSystem(O) ==
    /\ Alive
    /\ loopPc = "system"
    /\ \E res \in O :
         /\ gathered' = [gathered EXCEPT !.system = res.val]
         /\ failed' = IF res.failed THEN failed \cup {"system"} ELSE failed
         /\ loopPc' = AfterSource("ports", res)
    /\ UNCHANGED <<hostState, stamp, wire, mainVars, confVars, cancelled, done, tickerOn, tickerC, cycles,
                   payload, sendCalls, sentPayload, pollVars, sendVars,
                   taskVars>>

\* ports, err := network.GetOpenPorts(cfg.PortsToMonitor)
CollectPorts(O) ==
    /\ Alive
    /\ loopPc = "ports"
    /\ \E res \in O :
         /\ gathered' = [gathered EXCEPT !.ports = OrEmpty(res)]
         /\ failed' = IF res.failed THEN failed \cup {"ports"} ELSE failed
         /\ loopPc' = AfterSource("services", res)
    /\ UNCHANGED <<hostState, stamp, wire, mainVars, confVars, cancelled, done, tickerOn, tickerC, cycles,
                   payload, sendCalls, sentPayload, pollVars, sendVars,
                   taskVars>>

\* detectedServices := services.DetectAllServices() and the copy loop
CollectServices(O) ==
    /\ Alive
    /\ loopPc = "services"
    /\ \E res \in O :
         /\ gathered' = [gathered EXCEPT !.services = servicesList(res.val)]
         /\ failed' = IF res.failed THEN failed \cup {"services"} ELSE failed
         /\ loopPc' = AfterSource("ssl", res)
    /\ UNCHANGED <<hostState, stamp, wire, mainVars, confVars, cancelled, done, tickerOn, tickerC, cycles,
                   payload, sendCalls, sentPayload, pollVars, sendVars,
                   taskVars>>

\* sslInfo, err := network.CheckSSL(cfg.SSLDomains)
CollectSSL(O) ==
    /\ Alive
    /\ loopPc = "ssl"
    /\ \E res \in O :
         /\ gathered' = [gathered EXCEPT !.ssl = OrEmpty(res)]
         /\ failed' = IF res.failed THEN failed \cup {"ssl"} ELSE failed
         /\ loopPc' = AfterSource("logs", res)
    /\ UNCHANGED <<hostState, stamp, wire, mainVars, confVars, cancelled, done, tickerOn, tickerC, cycles,
                   payload, sendCalls, sentPayload, pollVars, sendVars,
                   taskVars>>

\* logsData, err := logs.ReadAndSanitize(cfg.LogPaths, cfg.LogMaxLines)
CollectLogs(O) ==
    /\ Alive
    /\ loopPc = "logs"
    /\ \E res \in O :
         /\ gathered' = [gathered EXCEPT !.logs = OrEmpty(res)]
         /\ failed' = IF res.failed THEN failed \cup {"logs"} ELSE failed
         /\ loopPc' = AfterSource("assemble", res)
    /\ UNCHANGED <<hostState, stamp, wire, mainVars, confVars, cancelled, done, tickerOn, tickerC, cycles,
                   payload, sendCalls, sentPayload, pollVars, sendVars,
                   taskVars>>

\* the payload is assembled and client.Send(payload) is entered: attempt is
\* 0, so the loop condition holds and no delay precedes the first request
AssembleAndSend ==
    /\ Alive
    /\ loopPc = "assemble"
    /\ \E h \in OsHostnames :
         LET p == AssemblePayload(gathered, HostnameOf(cfg.Hostname, h))
         IN  payload' = p /\ sentPayload' = p
    /\ stamp' = Now(cycles)
    /\ sendCalls' = sendCalls + 1
    /\ loopPc' = "request"
    /\ UNCHANGED <<hostState, wire, mainVars, confVars, cancelled, done, tickerOn, tickerC, cycles,
                   failed, gathered, pollVars, sendVars, taskVars>>

-----------------------------------------------------------------------------
(* transport.Client.Send *)

\* the top of a loop round with attempt > 0: time.Sleep(calculateBackoff(attempt))
SendBackoff ==
    /\ Alive
    /\ loopPc = "backoff"
    /\ slept' = Append(slept, calculateBackoff(attempt))
    /\ loopPc' = "request"
    /\ UNCHANGED <<hostState, stamp, wire, mainVars, confVars, cancelled, done, tickerOn, tickerC, cycles,
                   cycleVars, attempt, lastErr, sendAttempts, sendFailures,
                   lastResp, sendResult, taskVars>>

\* err := c.sendRequest(payload) and the rest of the loop round, up to the
\* loop condition of the next round; the collector answers r
SendAttempt(S) ==
    /\ Alive
    /\ loopPc = "request"
    /\ \E r \in S :
         LET err == sendRequest(r) IN
         /\ sendAttempts' = sendAttempts + 1
         /\ lastResp' = r
         /\ wire' = Marshal(sentPayload, stamp)
         /\ sendFailures' = IF Is2xx(r) THEN sendFailures ELSE sendFailures + 1
         /\ IF err = NoErr
            THEN /\ sendResult' = RetNil
                 /\ loopPc' = "ret"
                 /\ UNCHANGED <<hostState, attempt, lastErr>>
            ELSE /\ lastErr' = err
                 /\ IF IsAuthError(err)
                    THEN /\ sendResult' = RetErr(err)
                         /\ loopPc' = "ret"
                         /\ UNCHANGED attempt
                    ELSE /\ attempt' = attempt + 1
                         /\ IF LoopContinues(attempt + 1)
                            THEN /\ loopPc' = "backoff"
                                 /\ UNCHANGED sendResult
                            ELSE /\ sendResult' = RetExhausted(err)
                                 /\ loopPc' = "ret"
    /\ UNCHANGED <<hostState, stamp, mainVars, confVars, cancelled, done, tickerOn, tickerC, cycles,
                   cycleVars, slept, taskVars>>

-----------------------------------------------------------------------------
(* the command goroutines *)

\* result, err := cmdHandler.Execute(context.Background(), c) for every type
\* but update_config; handleStop calls shutdown(), handleRestart starts the
\* goroutine that sleeps 1 s
TaskExecute(i) ==
    /\ Alive
    /\ tasks[i].pc = "exec"
    /\ tasks[i].type # "update_config"
    /\ \E o \in ExecOutcomes(tasks[i].type) :
         /\ tasks' = [tasks EXCEPT ![i].pc = "respond",
                                   ![i].status = OutcomeStatus(o),
                                   ![i].message = OutcomeMessage(o),
                                   ![i].execs = @ + 1]
         /\ restartTimers' = IF o.launched THEN restartTimers + 1
                             ELSE restartTimers
    /\ cancelled' = IF CallsShutdown(tasks[i].type) THEN TRUE ELSE cancelled
    /\ UNCHANGED <<hostState, stamp, wire, mainVars, confVars, loopPc, done, tickerOn,
                   tickerC, cycles, cycleVars, sendVars>>

\* Execute of an update_config command, handleUpdateConfig up to the call
\* of config.Save: an error is returned at once, else the merged
\* configuration is at hand
TaskUpdate(i) ==
    /\ Alive
    /\ tasks[i].pc = "exec"
    /\ tasks[i].type = "update_config"
    /\ LET u == UpdateStart(tasks[i].payload, file) IN
         tasks' = [tasks EXCEPT
                     ![i].pc = IF u.err # "" THEN "respond" ELSE "create",
                     ![i].status = IF u.err # "" THEN "error" ELSE @,
                     ![i].message = IF u.err # "" THEN u.err ELSE @,
                     ![i].cur = u.cur,
                     ![i].saw = IF HasConfigObject(tasks[i].payload)
                                THEN file.state ELSE @,
                     ![i].execs = @ + 1]
    /\ UNCHANGED <<hostState, stamp, wire, mainVars, confVars, loopPc, cancelled, done,
                   tickerOn, tickerC, cycles, cycleVars, sendVars,
                   restartTimers>>

\* what a write to the disk does: it goes through, or it fails (no
\* permission, no space, an I/O error)
Written == "written"
WriteFailed == "write failed"
Writes == {Written, WriteFailed}
WritesOk == {Written}

\* config.Save, os.Create(path): the file is truncated; or Create fails, the
\* file is as it was and handleUpdateConfig returns "failed to save config"
TaskSaveCreate(i, W) ==
    /\ Alive
    /\ tasks[i].pc = "create"
    /\ \E w \in W :
         IF w = Written
         THEN /\ file' = EmptyFile
              /\ tasks' = [tasks EXCEPT ![i].pc = "encode", ![i].wrote = TRUE]
         ELSE /\ file' = file
              /\ tasks' = [tasks EXCEPT ![i].pc = "respond",
                                        ![i].status = "error",
                                        ![i].message = "failed to save config"]
    /\ UNCHANGED <<hostState, stamp, wire, mainVars, cfg, loopPc, cancelled, done, tickerOn,
                   tickerC, cycles, cycleVars, sendVars, restartTimers>>

\* config.Save, encoder.Encode(cfg): the configuration is written and
\* handleUpdateConfig returns "Config updated successfully"; or Encode
\* fails and handleUpdateConfig returns "failed to save config": the write
\* left nothing behind (the file is as it was, empty unless another Save
\* has written meanwhile) or a part of the text, which Load parses no more
\* than the empty file
TaskSaveEncode(i, W) ==
    /\ Alive
    /\ tasks[i].pc = "encode"
    /\ \E w \in W :
         IF w = Written
         THEN /\ file' = FileOf(tasks[i].cur)
              /\ tasks' = [tasks EXCEPT
                             ![i].pc = "respond",
                             ![i].status = "success",
                             ![i].message = "Config updated successfully"]
         ELSE /\ file' \in {file, EmptyFile}
              /\ tasks' = [tasks EXCEPT ![i].pc = "respond",
                                        ![i].status = "error",
                                        ![i].message = "failed to save config"]
    /\ UNCHANGED <<hostState, stamp, wire, mainVars, cfg, loopPc, cancelled, done, tickerOn,
                   tickerC, cycles, cycleVars, sendVars, restartTimers>>

\* client.SendCommandResponse(c.ID, status, message): one request; its
\* error is only logged
TaskRespond(i, S) ==
    /\ Alive
    /\ tasks[i].pc = "respond"
    /\ \E r \in S :
         tasks' = [tasks EXCEPT ![i].pc = "done",
                                ![i].acks = @ + 1,
                                ![i].sent = [status |-> tasks[i].status,
                                             command_id |-> tasks[i].id,
                                             message |-> tasks[i].message]]
    /\ UNCHANGED <<hostState, stamp, wire, mainVars, confVars, loopPc, cancelled, done, tickerOn, tickerC,
                   cycles, cycleVars, sendVars, restartTimers>>

\* the goroutine of handleRestart: after time.Sleep(1 * time.Second),
\* h.shutdown()
RestartShutdown ==
    /\ Alive
    /\ restartTimers > 0
    /\ restartTimers' = restartTimers - 1
    /\ cancelled' = TRUE
    /\ UNCHANGED <<hostState, stamp, wire, mainVars, confVars, loopPc, done, tickerOn, tickerC, cycles,
                   cycleVars, sendVars, tasks>>

-----------------------------------------------------------------------------
(* The agent: main, the loop, its cycles and the command goroutines.  The  *)
(* resource sampler and port discovery may fail; the service sweep, the     *)
(* certificate check and the log sampler are up (CycleSpec below draws      *)
(* every outcome of every source).                                          *)

Next ==
    \/ OSSignal
    \/ MainSignal
    \/ MainWaitDone
    \/ MainDone
    \/ LoopFirstCycle
    \/ CycleReturn
    \/ Tick
    \/ LoopCtxDone
    \/ LoopTick
    \/ PollCommands(Commands(CmdTypes, SystemPayloads), MaxCmds, SystemStatuses)
    \/ DispatchCommands
    \/ CollectSystem(SystemOutcomes)
    \/ CollectPorts(PortsOutcomes)
    \/ CollectServices(Healthy(ServicesOutcomes))
    \/ CollectSSL(Healthy(SSLOutcomes(cfg.SSLDomains)))
    \/ CollectLogs(Healthy(LogsOutcomes(cfg.LogPaths)))
    \/ AssembleAndSend
    \/ SendBackoff
    \/ SendAttempt(SystemStatuses)
    \/ \E i \in DOMAIN tasks : TaskExecute(i)
    \/ \E i \in DOMAIN tasks : TaskUpdate(i)
    \/ \E i \in DOMAIN tasks : TaskSaveCreate(i, Writes)
    \/ \E i \in DOMAIN tasks : TaskSaveEncode(i, Writes)
    \/ \E i \in DOMAIN tasks : TaskRespond(i, SystemStatuses)
    \/ RestartShutdown

Spec == Init /\ [][Next]_vars

\* The agent on a host whose data sources are up, with the commands that
\* bear on shutdown: the runs on which cancellation is decided.
ShutdownTypes == {"stop", "restart", "ping"}

\* The steps of the loop goroutine that return by the code alone: the
\* select and the statements of the goroutine itself, the HTTP requests
\* (http.Client with Timeout 30 s), the dial of each domain (context of
\* 5 s) and the delays of Send.
BoundedLoopSteps ==
    \/ LoopFirstCycle
    \/ CycleReturn
    \/ LoopTick
    \/ PollCommands(Commands(ShutdownTypes, {}), MaxCmds, SystemStatuses)
    \/ DispatchCommands
    \/ CollectSSL(Healthy(SSLOutcomes(cfg.SSLDomains)))
    \/ AssembleAndSend
    \/ SendBackoff
    \/ SendAttempt(SystemStatuses)

\* The steps that wait for the host with no context and no timer: the
\* system sampler (disk.Usage of every mount point), the external commands
\* of the port discovery and of the service sweep (exec.Command(...).Output()
\* and .Run()), the reads of the log files.  They return when the host
\* answers; the code does not make them return.
WaitingLoopSteps ==
    \/ CollectSystem(Healthy(SystemOutcomes))
    \/ CollectPorts(Healthy(PortsOutcomes))
    \/ CollectServices(Healthy(ServicesOutcomes))
    \/ CollectLogs(Healthy(LogsOutcomes(cfg.LogPaths)))

LoopSteps ==
    \/ BoundedLoopSteps
    \/ WaitingLoopSteps

MainSteps ==
    \/ MainSignal
    \/ MainWaitDone
    \/ MainDone

NextShutdown ==
    \/ OSSignal
    \/ MainSteps
    \/ Tick
    \/ LoopCtxDone
    \/ LoopSteps
    \/ \E i \in DOMAIN tasks : TaskExecute(i)
    \/ \E i \in DOMAIN tasks : TaskRespond(i, SystemStatuses)
    \/ RestartShutdown

\* Fairness of the agent's own steps: the Go scheduler runs every runnable
\* goroutine, the steps that the code bounds return, and a select with
\* several ready cases picks one of them at random, so the ctx.Done() case,
\* ready at every select once the context is cancelled, is taken at one of
\* them.  Nothing makes a step that waits for the host return: a cycle can
\* stay for ever at an external command that hangs.
FairSpec ==
    /\ Init
    /\ [][NextShutdown]_vars
    /\ WF_vars(BoundedLoopSteps)
    /\ SF_vars(LoopCtxDone)
    /\ WF_vars(MainSteps)

\* One agent whose collector sends only liveness probes and no signal
\* arrives: the cycles with every outcome of every data source and every
\* answer of the collector.
PingOnly == {"ping"}

NextCycle ==
    \/ LoopFirstCycle
    \/ CycleReturn
    \/ Tick
    \/ LoopTick
    \/ PollCommands(Commands(PingOnly, {}), MaxPings, Statuses)
    \/ DispatchCommands
    \/ CollectSystem(SystemOutcomes)
    \/ CollectPorts(PortsOutcomes)
    \/ CollectServices(ServicesOutcomes)
    \/ CollectSSL(SSLOutcomes(cfg.SSLDomains))
    \/ CollectLogs(LogsOutcomes(cfg.LogPaths))
    \/ AssembleAndSend
    \/ SendBackoff
    \/ SendAttempt(Statuses)
    \/ \E i \in DOMAIN tasks : TaskExecute(i)
    \/ \E i \in DOMAIN tasks : TaskRespond(i, SystemStatuses)

CycleSpec == Init /\ [][NextCycle]_vars

\* The agent while the collector cannot take a report: every request of a
\* submission fails, by the network or by a rejected credential.
FailOnly == {NetErr, 401}

NextOutage ==
    \/ OSSignal
    \/ MainSteps
    \/ Tick
    \/ LoopCtxDone
    \/ LoopFirstCycle
    \/ CycleReturn
    \/ LoopTick
    \/ PollCommands(Commands(ShutdownTypes, {}), MaxCmds, SystemStatuses)
    \/ DispatchCommands
    \/ CollectSystem(Healthy(SystemOutcomes))
    \/ CollectPorts(Healthy(PortsOutcomes))
    \/ CollectServices(Healthy(ServicesOutcomes))
    \/ CollectSSL(Healthy(SSLOutcomes(cfg.SSLDomains)))
    \/ CollectLogs(Healthy(LogsOutcomes(cfg.LogPaths)))
    \/ AssembleAndSend
    \/ SendBackoff
    \/ SendAttempt(FailOnly)
    \/ \E i \in DOMAIN tasks : TaskExecute(i)
    \/ \E i \in DOMAIN tasks : TaskRespond(i, SystemStatuses)
    \/ RestartShutdown

OutageSpec == Init /\ [][NextOutage]_vars

\* The agent on a host whose data sources are up and whose collector accepts
\* every report, with commands of every type: the runs on which the effects
\* of a command are decided.
OkOnly == {200}

NextCommand ==
    \/ OSSignal
    \/ MainSteps
    \/ Tick
    \/ LoopCtxDone
    \/ LoopFirstCycle
    \/ CycleReturn
    \/ LoopTick
    \/ PollCommands(Commands(CmdTypes, SystemPayloads), MaxCmds, OkOnly)
    \/ DispatchCommands
    \/ CollectSystem(Healthy(SystemOutcomes))
    \/ CollectPorts(Healthy(PortsOutcomes))
    \/ CollectServices(Healthy(ServicesOutcomes))
    \/ CollectSSL(Healthy(SSLOutcomes(cfg.SSLDomains)))
    \/ CollectLogs(Healthy(LogsOutcomes(cfg.LogPaths)))
    \/ AssembleAndSend
    \/ SendAttempt(OkOnly)
    \/ \E i \in DOMAIN tasks : TaskExecute(i)
    \/ \E i \in DOMAIN tasks : TaskUpdate(i)
    \/ \E i \in DOMAIN tasks : TaskSaveCreate(i, Writes)
    \/ \E i \in DOMAIN tasks : TaskSaveEncode(i, Writes)
    \/ \E i \in DOMAIN tasks : TaskRespond(i, SystemStatuses)
    \/ RestartShutdown

CommandSpec == Init /\ [][NextCommand]_vars



\* The update_config commands of the first poll, one payload out of P each,
\* at most n of them: the payload check, the Load, the merge and the Save of
\* every one, in every interleaving.
UpdateOnly == {"update_config"}

UpdateSteps(P, n) ==
    \/ LoopFirstCycle
    \/ PollCommands(Commands(UpdateOnly, P), n, OkOnly)
    \/ DispatchCommands
    \/ \E i \in DOMAIN tasks : TaskUpdate(i)
    \/ \E i \in DOMAIN tasks : TaskSaveCreate(i, Writes)
    \/ \E i \in DOMAIN tasks : TaskSaveEncode(i, Writes)
    \/ \E i \in DOMAIN tasks : TaskRespond(i, OkOnly)

\* every payload, on every start configuration
NextMerge == UpdateSteps(MergePayloads, MaxCmds)

MergeSpec == InitFrom(StartConfigs) /\ [][NextMerge]_vars

\* several updates at a time
UpdatePayloads == MalformedPayloads \cup {HostnameUpdate, ShortInterval}

NextUpdate == UpdateSteps(UpdatePayloads, MaxUpdates)

UpdateSpec == Init /\ [][NextUpdate]_vars

\* updates of disjoint fields, several returned by one poll
DisjointUpdates == {HostnameUpdate, LinesUpdate}

NextRace == UpdateSteps(DisjointUpdates, MaxUpdates)

RaceSpec == Init /\ [][NextRace]_vars

\* update_config commands that change nothing, on every file of
\* OperatorFiles: the configuration that main loaded is loaded again by
\* handleUpdateConfig and written back by config.Save, and the written file
\* is loaded by the next command.
NextRoundTrip == UpdateSteps({EmptyUpdate}, MaxUpdates)

RoundTripSpec == InitFiles(OperatorFiles) /\ [][NextRoundTrip]_vars

\* The agent polled with stop commands, several at a time, and signalled by
\* the operating system: the runs on which the context is cancelled more
\* than once.
StopOnly == {"stop"}

NextStop ==
    \/ OSSignal
    \/ MainSteps
    \/ Tick
    \/ LoopCtxDone
    \/ LoopFirstCycle
    \/ CycleReturn
    \/ LoopTick
    \/ PollCommands(Commands(StopOnly, {}), MaxStops, OkOnly)
    \/ DispatchCommands
    \/ CollectSystem(Healthy(SystemOutcomes))
    \/ CollectPorts(Healthy(PortsOutcomes))
    \/ CollectServices(Healthy(ServicesOutcomes))
    \/ CollectSSL(Healthy(SSLOutcomes(cfg.SSLDomains)))
    \/ CollectLogs(Healthy(LogsOutcomes(cfg.LogPaths)))
    \/ AssembleAndSend
    \/ SendAttempt(OkOnly)
    \/ \E i \in DOMAIN tasks : TaskExecute(i)
    \/ \E i \in DOMAIN tasks : TaskRespond(i, OkOnly)

StopSpec == Init /\ [][NextStop]_vars

\* The agent polled with restart commands and never signalled: the runs on
\* which handleRestart alone decides whether the context is cancelled.
RestartOnly == {"restart"}

NextRestart ==
    \/ MainDone
    \/ Tick
    \/ LoopCtxDone
    \/ LoopFirstCycle
    \/ CycleReturn
    \/ LoopTick
    \/ PollCommands(Commands(RestartOnly, {}), MaxRestarts, OkOnly)
    \/ DispatchCommands
    \/ CollectSystem(Healthy(SystemOutcomes))
    \/ CollectPorts(Healthy(PortsOutcomes))
    \/ CollectServices(Healthy(ServicesOutcomes))
    \/ CollectSSL(Healthy(SSLOutcomes(cfg.SSLDomains)))
    \/ CollectLogs(Healthy(LogsOutcomes(cfg.LogPaths)))
    \/ AssembleAndSend
    \/ SendAttempt(OkOnly)
    \/ \E i \in DOMAIN tasks : TaskExecute(i)
    \/ \E i \in DOMAIN tasks : TaskRespond(i, OkOnly)
    \/ RestartShutdown

RestartSpec == Init /\ [][NextRestart]_vars

\* The agent from the first line of main, on every start file, polled with
\* ping commands: the runs on which config.Load decides whether anything
\* runs at all.
NextStartup ==
    \/ MainLoad
    \/ Tick
    \/ LoopFirstCycle
    \/ CycleReturn
    \/ LoopTick
    \/ PollCommands(Commands(PingOnly, {}), MaxCmds, OkOnly)
    \/ DispatchCommands
    \/ CollectSystem(Healthy(SystemOutcomes))
    \/ CollectPorts(Healthy(PortsOutcomes))
    \/ CollectServices(Healthy(ServicesOutcomes))
    \/ CollectSSL(Healthy(SSLOutcomes(cfg.SSLDomains)))
    \/ CollectLogs(Healthy(LogsOutcomes(cfg.LogPaths)))
    \/ AssembleAndSend
    \/ SendAttempt(OkOnly)
    \/ \E i \in DOMAIN tasks : TaskExecute(i)
    \/ \E i \in DOMAIN tasks : TaskRespond(i, OkOnly)

StartupSpec == InitStartup /\ [][NextStartup]_vars

\* One cycle up to its port discovery, on every host of PortHosts and with
\* every filter: the runs on which GetOpenPorts is decided.
NoCommands == {}

NextPorts ==
    \/ LoopFirstCycle
    \/ PollCommands(NoCommands, MaxCmds, OkOnly)
    \/ DispatchCommands
    \/ CollectSystem(Healthy(SystemOutcomes))
    \/ CollectPorts({GetOpenPorts(hostState.tools, cfg.PortsToMonitor)})

PortSpec == InitOn(FilterConfigs, PortHosts) /\ [][NextPorts]_vars

\* One cycle up to its certificate check, with every list of domains, on
\* hosts whose servers are up or down, and on hosts where the certificate of
\* the first domain is at the end of its life: the runs on which CheckSSL is
\* decided.
NextSSL ==
    \/ LoopFirstCycle
    \/ PollCommands(NoCommands, MaxCmds, OkOnly)
    \/ DispatchCommands
    \/ CollectSystem(Healthy(SystemOutcomes))
    \/ CollectPorts({GetOpenPorts(hostState.tools, cfg.PortsToMonitor)})
    \/ CollectServices(Healthy(ServicesOutcomes))
    \/ CollectSSL({CheckSSL(cfg.SSLDomains, hostState.servers)})

\* One cycle up to its port discovery on every host of FallbackHosts, with
\* the filter <<22>> and with none: the runs on which the choice of the tool is decided.
FallbackSpec == InitOn(StartConfigs, FallbackHosts) /\ [][NextPorts]_vars

\* One cycle up to its port discovery on hosts whose tool prints any text:
\* the runs on which the shape of the port records is decided.
RecordSpec == InitOn(FilterConfigs, AnyTextHosts(MaxLines)) /\ [][NextPorts]_vars

SSLSpec == InitOn(DomainConfigs(MaxDomains), SSLHosts) /\ [][NextSSL]_vars

\* One cycle up to its log sampling, on hosts whose system log was written
\* with every list of forms: the runs on which ReadAndSanitize is decided.
NextLogs ==
    \/ LoopFirstCycle
    \/ PollCommands(NoCommands, MaxCmds, OkOnly)
    \/ DispatchCommands
    \/ CollectSystem(Healthy(SystemOutcomes))
    \/ CollectPorts({GetOpenPorts(hostState.tools, cfg.PortsToMonitor)})
    \/ CollectServices(Healthy(ServicesOutcomes))
    \/ CollectSSL({CheckSSL(cfg.SSLDomains, hostState.servers)})
    \/ CollectLogs({ReadAndSanitize(cfg.LogPaths, cfg.LogMaxLines,
                                    hostState.files)})

LogSpec == InitOn({FullConfig}, LogHosts) /\ [][NextLogs]_vars

\* The same cycle with every list of log paths and every line limit, on
\* hosts whose log files are missing, empty or hold some lines.
SamplerSpec == InitOn(PathConfigs(MaxPaths), FileHosts) /\ [][NextLogs]_vars

\* The same cycle on hosts whose system log holds keywords of the severity
\* families.
SeveritySpec == InitOn({FullConfig}, SeverityHosts) /\ [][NextLogs]_vars

\* One agent on a host whose data sources are up and that gets no commands,
\* with every answer of the collector to its reports and a ticker that
\* fires up to MaxTicks cycles: the runs on which ticks arrive while a cycle
\* is still gathering, sending or waiting to retry.
NextLoop ==
    \/ LoopFirstCycle
    \/ CycleReturn
    \/ TickUpTo(MaxTicks)
    \/ LoopTick
    \/ PollCommands(NoCommands, MaxCmds, OkOnly)
    \/ DispatchCommands
    \/ CollectSystem(Healthy(SystemOutcomes))
    \/ CollectPorts(Healthy(PortsOutcomes))
    \/ CollectServices(Healthy(ServicesOutcomes))
    \/ CollectSSL(Healthy(SSLOutcomes(cfg.SSLDomains)))
    \/ CollectLogs(Healthy(LogsOutcomes(cfg.LogPaths)))
    \/ AssembleAndSend
    \/ SendBackoff
    \/ SendAttempt(Statuses)

LoopSpec == Init /\ [][NextLoop]_vars

-----------------------------------------------------------------------------
(* The delivery client's retry policy *)

InSend == loopPc \in {"request", "backoff"}
SendReturned == loopPc = "ret" /\ sendCalls > 0

\* C1: one Send call makes at most 5 requests and ends: every loop round
\* still open has requests left to make; a 2xx answer ends the call with nil
\* at once (it is the only success and the last request); after 5 failed
\* requests none of which was answered 401 or 403 the call has returned the
\* exhausted-retries error that wraps the error of the last request.
C1_SendAttemptBudget ==
    /\ sendAttempts <= 5
    /\ InSend => sendAttempts < 5
    /\ (sendAttempts > 0 /\ Is2xx(lastResp)) =>
          /\ sendResult = RetNil
          /\ loopPc = "ret"
          /\ sendAttempts = sendFailures + 1
    /\ sendResult.ret = "nil" => (sendAttempts > 0 /\ Is2xx(lastResp))
    /\ (sendFailures = 5 /\ lastResp \notin {401, 403}) =>
          /\ loopPc = "ret"
          /\ sendResult.ret = "err"
          /\ sendResult.wrapped
          /\ sendResult.err = lastErr
          /\ sendResult.err # NoErr
          /\ sendResult.err.status = lastResp

C1_Witness ==
    /\ SendReturned
    /\ sendAttempts = 5
    /\ sendResult = RetExhausted(HTTPError(500))

\* C2: a request answered 401 or 403 is the last of its Send call: the call
\* has returned, no delay follows the request, and the error returned is the
\* HTTP error itself, not the exhausted-retries error.
C2_AuthErrorIsTerminal ==
    (sendAttempts > 0 /\ lastResp \in {401, 403}) =>
        /\ loopPc = "ret"
        /\ Len(slept) = sendAttempts - 1
        /\ sendResult.ret = "err"
        /\ ~sendResult.wrapped
        /\ sendResult.err = [kind |-> "HTTPError", status |-> lastResp]

C2_Witness ==
    /\ SendReturned
    /\ sendAttempts = 1
    /\ lastResp = 403
    /\ sendResult = RetErr(HTTPError(403))

\* the delay of the policy before attempt k, in seconds
PolicyDelay(k) == IF 2 * (k - 1) > 60 THEN 60 ELSE 2 * (k - 1)

\* for every attempt number the computed delay is at most 60 s, never
\* decreases and is the delay of the policy
DelaysWithinPolicy ==
    \A a \in 0..MaxAttemptArg :
       /\ calculateBackoff(a) <= 60
       /\ a > 0 => calculateBackoff(a) >= calculateBackoff(a - 1)
       /\ calculateBackoff(a) = PolicyDelay(a + 1)

\* C3: no wait precedes attempt 1, the wait before attempt k in 2..5 is
\* min(60 s, 1 s * 2.0 * (k-1)), that is 2, 4, 6, 8 s; for every attempt
\* number the computed delay is at most 60 s and never decreases.
C3_BackoffDelays ==
    /\ Len(slept) <= 4
    /\ \A k \in 2..5 : k - 1 <= Len(slept) =>
          /\ slept[k - 1] = PolicyDelay(k)
          /\ slept[k - 1] = << 2, 4, 6, 8 >>[k - 1]
    /\ loopPc = "request" => Len(slept) = sendAttempts
    /\ loopPc = "backoff" => Len(slept) = sendAttempts - 1
    /\ SendReturned => Len(slept) = sendAttempts - 1
    /\ DelaysWithinPolicy

C3_Witness ==
    /\ loopPc = "request"
    /\ sendAttempts = 4
    /\ slept = << 2, 4, 6, 8 >>
    /\ calculateBackoff(MaxAttemptArg) = 60

\* C4: when the N requests of a Send call so far have all failed, N < 5,
\* the call has made at most N requests.
C4_AttemptsWithinFailures ==
    ((sendAttempts = 0 \/ ~Is2xx(lastResp)) /\ sendFailures < 5) =>
        sendAttempts <= sendFailures

C4_Witness ==
    /\ loopPc = "backoff"
    /\ sendFailures = 3
    /\ sendAttempts = 3

\* C5: the delay before each retry is twice the delay before the previous
\* retry, up to the 60 s cap (exponential backoff).
C5_ExponentialBackoff ==
    \A k \in 2..Len(slept) :
        slept[k] = (IF 2 * slept[k - 1] > 60 THEN 60 ELSE 2 * slept[k - 1])

-----------------------------------------------------------------------------
(* The collection cycle *)

SequenceSources == {"ports", "services", "ssl", "logs"}

\* C6: whatever data sources fail in a cycle, the cycle ends having called
\* Send exactly once, with the payload it assembled, in which every failed
\* sequence-valued source is an empty sequence.
C6_FailedSourcesStillSend ==
    /\ loopPc = "ret" =>
          /\ sendCalls = 1
          /\ sendAttempts >= 1
          /\ sentPayload = payload
          /\ \A src \in failed \cap SequenceSources :
                Len(payload[src].elems) = 0
    /\ loopPc \in {"request", "backoff"} =>
          /\ sendCalls = 1
          /\ sentPayload = payload
          /\ \A src \in failed \cap SequenceSources :
                Len(sentPayload[src].elems) = 0

C6_Witness ==
    /\ loopPc = "ret"
    /\ failed = Sources
    /\ sendCalls = 1
    /\ sentPayload.ports = EmptySlice
    /\ sentPayload.logs.elems = << >>

-----------------------------------------------------------------------------
(* Commands and shutdown *)

\* C7: every command a poll returned is executed exactly once and answered
\* by exactly one acknowledge call that carries its identifier, the status
\* and the message of its execution: so it is when the agent has ended.
C7_EveryCommandAcknowledgedOnce ==
    mainPc = "exited" =>
        \A i \in DOMAIN tasks :
            /\ tasks[i].execs = 1
            /\ tasks[i].acks = 1
            /\ tasks[i].sent = [status |-> tasks[i].status,
                                command_id |-> tasks[i].id,
                                message |-> tasks[i].message]

\* C8: a command task that has started runs to completion even when main
\* returns: no task that has executed its command is left without its
\* outcome sent; so for the task of a stop command.
C8_StartedTasksComplete ==
    mainPc = "exited" =>
        \A i \in DOMAIN tasks :
            tasks[i].pc # "exec" => tasks[i].pc = "done"

\* C9: the loop starts no cycle at a select at which the context is already
\* cancelled, also when a tick is pending there.
C9_NoCycleOnceCancelled ==
    [][(cancelled /\ loopPc = "select") => loopPc' # "poll"]_vars

\* every cycle terminates: the loop does not stay for ever at a step that
\* waits for the host
CyclesTerminate ==
    /\ []<>(loopPc # "system")
    /\ []<>(loopPc # "ports")
    /\ []<>(loopPc # "services")
    /\ []<>(loopPc # "logs")

\* the loop has stopped, done is closed and main has returned
Exited == loopPc = "stopped" /\ done /\ mainPc = "exited"

\* C10: under fair scheduling, on the runs on which every cycle terminates,
\* once the context is cancelled the loop stops, done is closed and main
\* returns.
C10_CancelLeadsToExit == CyclesTerminate => (cancelled ~> Exited)

\* main has returned after a stop command cancelled the context and the
\* loop closed done while no signal had been taken from sigChan
C10_Witness ==
    /\ cancelled
    /\ loopPc = "stopped"
    /\ done
    /\ mainPc = "exited"
    /\ sigsSent = 1
    /\ sigChan = 1

-----------------------------------------------------------------------------
(* Command dispatch *)

\* C11: command dispatch never blocks the cycle: whatever the command tasks
\* are doing, the step the cycle is at (dispatch, every data source, the
\* assembly, every request and delay of the submission, the return, the
\* next tick) can be taken; and every task that has not executed, or not
\* acknowledged, can do so whatever the other tasks are doing.  So the
\* outcomes are acknowledged in any order relative to each other and to the
\* submission.
C11_DispatchNeverBlocks ==
    /\ loopPc = "dispatch" => ENABLED DispatchCommands
    /\ loopPc = "system" => ENABLED CollectSystem(SystemOutcomes)
    /\ loopPc = "ports" => ENABLED CollectPorts(PortsOutcomes)
    /\ loopPc = "services" => ENABLED CollectServices(ServicesOutcomes)
    /\ loopPc = "ssl" => ENABLED CollectSSL(SSLOutcomes(cfg.SSLDomains))
    /\ loopPc = "logs" => ENABLED CollectLogs(LogsOutcomes(cfg.LogPaths))
    /\ loopPc = "assemble" => ENABLED AssembleAndSend
    /\ loopPc = "request" => ENABLED SendAttempt(Statuses)
    /\ loopPc = "backoff" => ENABLED SendBackoff
    /\ loopPc = "ret" => ENABLED CycleReturn
    /\ (loopPc = "select" /\ tickerC > 0) => ENABLED LoopTick
    /\ \A i \in DOMAIN tasks :
         /\ tasks[i].pc = "exec" => ENABLED TaskExecute(i)
         /\ tasks[i].pc = "respond" => ENABLED TaskRespond(i, SystemStatuses)

\* the second cycle is entered, the payload of the first one submitted and
\* the second command of the first poll acknowledged, while the first
\* command of that poll has not begun to execute
C11_Witness ==
    /\ cycles = 2
    /\ loopPc = "poll"
    /\ Len(tasks) = 2
    /\ tasks[1].pc = "exec"
    /\ tasks[2].pc = "done"
    /\ tasks[2].acks = 1

\* the poll failed: no answer, a status other than 200, or a body that is
\* not a command list
PollFailed(r) == r.status = NetErr \/ r.status # 200 \/ ~r.decodable

CyclePositions ==
    {"dispatch", "system", "ports", "services", "ssl", "logs", "assemble",
     "request", "backoff", "ret"}

\* C12: each cycle polls for commands exactly once, before any data source
\* is invoked: at the poll nothing is polled, gathered or sent yet, and from
\* the dispatch to the return of the cycle exactly one poll has been made
\* (no retry); a failed poll (network error, a status other than 200, an
\* undecodable body) is an error with no commands, the dispatch that follows
\* it starts no task and leads to the data sources; and every cycle that
\* returns has submitted its payload, after all five sources.
C12_PollOncePerCycle ==
    /\ [](/\ loopPc = "poll" =>
               polls = 0 /\ gathered = NoLocals /\ failed = {} /\ sendCalls = 0
          /\ loopPc \in CyclePositions => polls = 1
          /\ loopPc = "dispatch" =>
               /\ gathered = NoLocals /\ failed = {} /\ sendCalls = 0
               /\ pollErr = PollFailed(polled.answer)
               /\ pollErr => polled.cmds = <<>>
          /\ loopPc = "ret" => sendCalls = 1 /\ gathered.system # "zero")
    /\ [][(loopPc = "dispatch" /\ PollFailed(polled.answer)) =>
             /\ Len(tasks') = Len(tasks)
             /\ loopPc' \in {"dispatch", "system"}]_vars

\* the collector answered the poll with 401 and a command list: the poll has
\* failed and the cycle is about to go on
C12_Witness ==
    /\ loopPc = "dispatch"
    /\ polls = 1
    /\ pollErr
    /\ polled.answer.status = 401
    /\ Len(polled.answer.cmds) > 0

-----------------------------------------------------------------------------
(* The scheduling loop and failed submissions *)

\* C13: a submission failure never stops the scheduling loop and never
\* triggers an early retry: the loop stops only when the context is
\* cancelled; a cycle whose Send returned an error (retries exhausted or a
\* rejected credential) returns to the select of the loop; no Send is open
\* at the select, and the select is left only by the cancellation or by a
\* tick, which starts a full cycle: a new poll, nothing gathered, no Send
\* call yet, no request counted; and every cycle that returns has made its
\* one Send call.
C13_SendFailureKeepsLoop ==
    /\ [](/\ loopPc = "stopped" => cancelled
          /\ loopPc = "select" => sendCalls = 0 /\ sendAttempts = 0
          /\ loopPc = "ret" => sendCalls = 1 /\ polls = 1)
    /\ [][(loopPc = "ret" /\ sendResult.ret = "err") =>
             loopPc' \in {"ret", "select"} /\ done' = done]_vars
    /\ [][loopPc = "select" =>
             \/ loopPc' = "select"
             \/ loopPc' = "stopped" /\ cancelled
             \/ /\ loopPc' = "poll"
                /\ tickerC > 0 /\ tickerC' = tickerC - 1
                /\ cycles' = cycles + 1
                /\ polls' = 0 /\ gathered' = NoLocals
                /\ sendCalls' = 0 /\ sendAttempts' = 0]_vars

\* the first cycle failed (every request of every Send fails here) and the
\* second cycle, started by the next tick, has run in full: one more poll,
\* all sources, one more Send call with five requests
C13_Witness ==
    /\ cycles = 2
    /\ loopPc = "ret"
    /\ polls = 1
    /\ sendCalls = 1
    /\ sendAttempts = maxRetries
    /\ sendResult.ret = "err"
    /\ ~cancelled

-----------------------------------------------------------------------------
(* update_config *)

UpdateSucceeded(i) ==
    tasks[i].type = "update_config" /\ tasks[i].status = "success"

\* C14: after a successful update_config command the merged values are in
\* the loaded configuration that the cycles read, as well as in the persisted
\* one: the loaded configuration is the merged one, and it is what Load
\* returns for the file.
C14_UpdateReachesLoadedConfig ==
    \A i \in DOMAIN tasks :
        UpdateSucceeded(i) =>
            /\ cfg = tasks[i].cur
            /\ (file = FileOf(tasks[i].cur) => Load(file).cfg = cfg)

\* the keys of the config object, the Config field each one sets and the
\* kind of value the field takes
ConfigKeys ==
    {"api_key", "backend_url", "interval_seconds", "hostname", "log_paths",
     "log_max_lines", "ssl_domains", "ports_to_monitor"}

FieldOf(k) ==
    CASE k = "api_key" -> "APIKey"
      [] k = "backend_url" -> "BackendURL"
      [] k = "interval_seconds" -> "IntervalSeconds"
      [] k = "hostname" -> "Hostname"
      [] k = "log_paths" -> "LogPaths"
      [] k = "log_max_lines" -> "LogMaxLines"
      [] k = "ssl_domains" -> "SSLDomains"
      [] k = "ports_to_monitor" -> "PortsToMonitor"

TextKeys == {"api_key", "backend_url", "hostname"}
CountKeys == {"interval_seconds", "log_max_lines"}
TextListKeys == {"log_paths", "ssl_domains"}

\* e is a well-typed value for the key k
WellTyped(k, e) ==
    IF k \in TextKeys THEN IsStr(e)
    ELSE IF k \in CountKeys THEN IsInt(e)
    ELSE IF k \in TextListKeys
         THEN e.t = "array" /\ \A i \in 1..Len(e.v) : IsStr(e.v[i])
    ELSE e.t = "array" /\ \A i \in 1..Len(e.v) : IsInt(e.v[i])

\* the field value a is the well-typed incoming value e
IsIncoming(k, e, a) ==
    IF k \in TextKeys THEN a = e.v
    ELSE IF k \in CountKeys THEN Whole(a) = e
    ELSE IF k \in TextListKeys THEN StrArr(a) = e
    ELSE IntArr(a) = e

\* an empty api credential or backend URL, a non-positive interval or line
\* limit
EmptyOrNotPositive(k, e) ==
    \/ k = "api_key" /\ e = Str("")
    \/ k = "backend_url" /\ e = Str(NoUrl)
    \/ k \in CountKeys /\ IsInt(e) /\ e.v <= 0

\* task i passes from the merge to the Save: its Load succeeded on file
UpdateMerges(i) == tasks[i].pc = "exec" /\ tasks'[i].pc = "create"

\* task i completes its Save: both writes succeeded
UpdateSaves(i) ==
    /\ tasks[i].pc = "encode"
    /\ tasks'[i].pc = "respond"
    /\ tasks'[i].status = "success"

\* C15 as stated: after a successful update_config every field absent from
\* the incoming object has the value it had before, and every field present
\* with a well-typed value has the incoming value.
C15_PartialUpdateAsStated ==
    [][\A i \in DOMAIN tasks :
          UpdateMerges(i) =>
            \A k \in ConfigKeys :
               LET e == tasks[i].payload.config.v[k]
                   b == Load(file).cfg[FieldOf(k)]
                   a == tasks'[i].cur[FieldOf(k)]
               IN  /\ e = Absent => a = b
                   /\ WellTyped(k, e) => IsIncoming(k, e, a)]_vars

\* C15: update_config is a partial update of the persisted configuration:
\* the configuration a successful update_config persists has, for every key
\* absent from the incoming object, the value Load returned before, and for
\* every key present with a well-typed value the incoming value, except
\* that an empty api credential, an empty backend URL, a non-positive
\* interval and a non-positive line limit are ignored: those fields keep
\* the value they had.
C15_PartialUpdate ==
    /\ [][\A i \in DOMAIN tasks :
             UpdateMerges(i) =>
               \A k \in ConfigKeys :
                  LET e == tasks[i].payload.config.v[k]
                      b == Load(file).cfg[FieldOf(k)]
                      a == tasks'[i].cur[FieldOf(k)]
                  IN  /\ e = Absent => a = b
                      /\ EmptyOrNotPositive(k, e) => a = b
                      /\ (WellTyped(k, e) /\ ~EmptyOrNotPositive(k, e)) =>
                            IsIncoming(k, e, a)]_vars
    /\ [][\A i \in DOMAIN tasks :
             UpdateSaves(i) =>
               /\ file'.state = "complete"
               /\ Decode(file'.obj) = tasks[i].cur]_vars

\* a successful update whose object carries an empty api_key and a new
\* hostname: the persisted configuration has the old key and the new name
C15_Witness ==
    \E i \in DOMAIN tasks :
        /\ UpdateSucceeded(i)
        /\ tasks[i].payload.config.v.api_key = Str("")
        /\ tasks[i].payload.config.v.hostname = Str("host2")
        /\ file.state = "complete"
        /\ Decode(file.obj).APIKey = "key1"
        /\ Decode(file.obj).Hostname = "host2"

\* C16: after any sequence of update_config commands the persisted
\* configuration satisfies the load-time schema (api_key non-empty,
\* backend_url starting with https://, interval_seconds at least 10): a
\* configuration file the agent has written is loaded again by Load.
C16_PersistedStaysLoadable ==
    file.state = "complete" =>
        /\ Validate(Decode(file.obj)) = ""
        /\ Load(file).err = ""

\* C17: configuration replacement is an atomic swap: a Load concurrent with
\* a Save by update_config observes the complete old or the complete new
\* configuration, never an empty or partially written file.
C17_LoadSeesCompleteFile ==
    \A i \in DOMAIN tasks : tasks[i].saw # "empty"

\* task i returns from handleUpdateConfig before config.Save
UpdateRefused(i) == tasks[i].pc = "exec" /\ tasks'[i].pc = "respond"

\* C18: an update_config command whose payload has no well-formed config
\* object fails with an error outcome and leaves the persisted configuration
\* unchanged, and so does one that finds the current configuration not
\* loadable: the step that executes it goes to the error outcome without a
\* Save and leaves the file as it is, and a task refused with one of these
\* two errors has never written the file.
C18_RefusedUpdateWritesNothing ==
    /\ [][\A i \in DOMAIN tasks :
             (/\ tasks[i].type = "update_config"
              /\ tasks[i].pc = "exec"
              /\ tasks'[i].pc # "exec"
              /\ \/ ~HasConfigObject(tasks[i].payload)
                 \/ Load(file).err # "") =>
                /\ UpdateRefused(i)
                /\ tasks'[i].status = "error"
                /\ tasks'[i].message =
                      IF ~HasConfigObject(tasks[i].payload)
                      THEN "invalid config payload"
                      ELSE "failed to load current config"
                /\ file' = file]_vars
    /\ [](\A i \in DOMAIN tasks :
             (/\ tasks[i].status = "error"
              /\ tasks[i].message \in {"invalid config payload",
                                       "failed to load current config"}) =>
                /\ ~tasks[i].wrote
                /\ tasks[i].pc \in {"respond", "done"}
                /\ tasks[i].pc = "done" => tasks[i].sent.status = "error")

\* an update with a config object found a configuration that does not load
\* (an earlier update left it invalid, or a Save is under way) and has failed
\* without writing
C18_Witness ==
    \E i \in DOMAIN tasks :
        /\ tasks[i].type = "update_config"
        /\ HasConfigObject(tasks[i].payload)
        /\ tasks[i].status = "error"
        /\ tasks[i].message = "failed to load current config"
        /\ tasks[i].pc = "done"
        /\ ~tasks[i].wrote

-----------------------------------------------------------------------------
(* Unrecognized commands and ping *)

KnownTypes == {"stop", "restart", "update_config", "ping"}

\* task i returns from Execute
TaskExecutes(i) == tasks[i].pc = "exec" /\ tasks'[i].pc # "exec"

OutcomeOf(t) ==
    [status |-> t.status, command_id |-> t.id, message |-> t.message]

\* C19: a command whose type is not stop, restart, update_config or ping
\* fails with the unrecognized-command error: the step that executes it
\* leads to the acknowledgement with status error, and it does nothing else:
\* the context is not cancelled by it, no process is launched, the loaded
\* and the persisted configuration and the position of the loop stay as
\* they are; the CommandOutcome that is sent has status error and the
\* identifier of the command.
C19_UnknownCommandFails ==
    /\ [][\A i \in DOMAIN tasks :
             (tasks[i].type \notin KnownTypes /\ TaskExecutes(i)) =>
                /\ tasks'[i].pc = "respond"
                /\ tasks'[i].status = "error"
                /\ tasks'[i].message = "unknown command type"
                /\ cancelled' = cancelled
                /\ restartTimers' = restartTimers
                /\ cfg' = cfg /\ file' = file
                /\ loopPc' = loopPc /\ done' = done /\ mainPc' = mainPc]_vars
    /\ [](\A i \in DOMAIN tasks :
             (tasks[i].type \notin KnownTypes /\ tasks[i].pc = "done") =>
                /\ tasks[i].sent = OutcomeOf(tasks[i])
                /\ tasks[i].sent.status = "error"
                /\ tasks[i].sent.command_id = tasks[i].id
                /\ tasks[i].acks = 1)

\* an unrecognized command has been acknowledged with its error, and the
\* loop, not cancelled, has gone on to its second cycle
C19_Witness ==
    \E i \in DOMAIN tasks :
        /\ tasks[i].type = "reboot"
        /\ tasks[i].pc = "done"
        /\ tasks[i].sent.status = "error"
        /\ ~cancelled
        /\ cycles = 2
        /\ loopPc = "ret"
        /\ file = FileOf(FullConfig)

\* C20: a ping command with identifier i yields the CommandOutcome
\* {command_id: i, status: "success", message: "pong"} and has no side
\* effect: the step that executes it does not cancel the context, launches
\* no process and leaves the loaded and the persisted configuration as they
\* are.
C20_PingAnswersPong ==
    /\ [][\A i \in DOMAIN tasks :
             (tasks[i].type = "ping" /\ TaskExecutes(i)) =>
                /\ tasks'[i].pc = "respond"
                /\ OutcomeOf(tasks'[i]) =
                      [status |-> "success", command_id |-> tasks[i].id,
                       message |-> "pong"]
                /\ cancelled' = cancelled
                /\ restartTimers' = restartTimers
                /\ cfg' = cfg /\ file' = file]_vars
    /\ [](\A i \in DOMAIN tasks :
             (tasks[i].type = "ping" /\ tasks[i].pc = "done") =>
                tasks[i].sent =
                   [status |-> "success", command_id |-> tasks[i].id,
                    message |-> "pong"])

\* a ping has been answered with pong and nothing is cancelled or launched
C20_Witness ==
    \E i \in DOMAIN tasks :
        /\ tasks[i].type = "ping"
        /\ tasks[i].pc = "done"
        /\ tasks[i].sent.message = "pong"
        /\ ~cancelled
        /\ restartTimers = 0
        /\ file = FileOf(FullConfig)
        /\ cfg = FullConfig

-----------------------------------------------------------------------------
(* Shutdown commands *)

StopTasks == { i \in DOMAIN tasks : tasks[i].type = "stop" }

\* C21: executing a stop command cancels the context and reports success
\* ("Agent shutdown initiated") in one step that is never held back by the
\* loop, main or another task and that leaves the loop and main where they
\* are (handleStop does not wait for the shutdown); a second cancellation,
\* by another stop command or by main after a signal, changes nothing: once
\* cancelled, the context stays cancelled.
C21_StopCancelsAndSucceeds ==
    /\ [](\A i \in StopTasks :
            /\ (Alive /\ tasks[i].pc = "exec") => ENABLED TaskExecute(i)
            /\ tasks[i].execs > 0 =>
                 /\ cancelled
                 /\ tasks[i].status = "success"
                 /\ tasks[i].message = "Agent shutdown initiated")
    /\ [][/\ cancelled => cancelled'
          /\ \A i \in StopTasks :
               (tasks[i].pc = "exec" /\ tasks'[i].pc # "exec") =>
                  /\ cancelled'
                  /\ tasks'[i].pc = "respond"
                  /\ tasks'[i].status = "success"
                  /\ <<loopPc, done, mainPc, tickerOn>>' =
                       <<loopPc, done, mainPc, tickerOn>>]_vars

\* two stop commands have both run, main has cancelled after a signal as
\* well, and the loop is still inside its cycle
C21_Witness ==
    /\ Cardinality({ i \in StopTasks : tasks[i].status = "success" }) >= 2
    /\ mainPc = "waitDone"
    /\ cancelled
    /\ loopPc \notin {"start", "stopped"}
    /\ ~done

RestartTasks == { i \in DOMAIN tasks : tasks[i].type = "restart" }
Launched == { i \in RestartTasks : tasks[i].status = "success" }
RestartErrors ==
    {"failed to get executable path", "failed to get absolute path",
     "failed to start new instance"}

\* C22: with restart commands as the only source of cancellation, the
\* context is cancelled only when a restart has launched the new instance,
\* and only by the goroutine started after that launch (never by the
\* executing step itself); a restart reports success, "Agent restart
\* initiated", exactly when the launch succeeded, and else one of the three
\* errors of handleRestart, in a step that starts no such goroutine and
\* cancels nothing: while no launch has succeeded the loop and main go on.
C22_RestartCancelsAfterLaunch ==
    /\ [](/\ cancelled => Launched # {}
          /\ restartTimers <= Cardinality(Launched)
          /\ Launched = {} =>
               (~cancelled /\ restartTimers = 0 /\ loopPc # "stopped"
                  /\ ~done /\ mainPc = "select")
          /\ \A i \in RestartTasks :
               tasks[i].execs > 0 =>
                 \/ /\ tasks[i].status = "success"
                    /\ tasks[i].message = "Agent restart initiated"
                 \/ /\ tasks[i].status = "error"
                    /\ tasks[i].message \in RestartErrors)
    /\ [][/\ \A i \in RestartTasks :
               (tasks[i].pc = "exec" /\ tasks'[i].pc # "exec") =>
                  /\ cancelled' = cancelled
                  /\ restartTimers' =
                       IF tasks'[i].status = "success"
                       THEN restartTimers + 1 ELSE restartTimers
          /\ (~cancelled /\ cancelled') =>
               (restartTimers' = restartTimers - 1 /\ tasks' = tasks)]_vars

\* one restart failed to start the new instance and was answered with the
\* error while the agent went on; a later one launched it, reported success,
\* and its goroutine has cancelled the context
C22_Witness ==
    /\ \E i \in RestartTasks :
         /\ tasks[i].status = "error"
         /\ tasks[i].message = "failed to start new instance"
         /\ tasks[i].pc = "done"
    /\ \E j \in Launched : tasks[j].pc = "done"
    /\ cancelled
    /\ restartTimers = 0
    /\ cycles = 2

\* C23: every cancellation triggered by a goroutine of handleRestart comes
\* after the outcome of its restart command has been sent: the launched
\* restarts whose outcome is sent are at least as many as the goroutines
\* that have already called shutdown.
C23_OutcomeSentBeforeCancel ==
    Cardinality({ i \in Launched : tasks[i].acks > 0 })
        >= Cardinality(Launched) - restartTimers

-----------------------------------------------------------------------------
(* Startup *)

\* nothing of the agent has run: no cycle, no poll, no report, no request,
\* no command task, no ticker
NothingRan ==
    /\ loopPc = "none"
    /\ cycles = 0
    /\ polls = 0
    /\ sendCalls = 0
    /\ sendAttempts = 0
    /\ tasks = <<>>
    /\ ~tickerOn
    /\ tickerC = 0

FatalExit == mainPc = "exited" /\ loopPc = "none"

\* the start files that the claim names, with the error Load gives for each
RejectedFiles ==
    {MissingFile, UnknownFieldFile, NoApiKeyFile, PlainUrlFile, ShortUrlFile}
      \cup ShortIntervalFiles

LoadErrorOf(f) ==
    IF f = MissingFile THEN "failed to open config file"
    ELSE IF f = UnknownFieldFile THEN "failed to parse config file"
    ELSE "config validation failed"

\* C24: Load rejects a missing file, a file with an unknown field, an empty
\* api_key, a backend_url that does not start with https:// and an
\* interval_seconds below 10; when Load rejects the file, main's next step
\* ends the process, and the process that ended so has run no cycle, polled
\* no command, sent nothing and takes no further step; whatever runs, runs
\* on a configuration that Validate accepts.
C24_ConfigFailureIsFatal ==
    /\ [](/\ mainPc = "load" =>
               /\ NothingRan
               /\ file \in RejectedFiles => Load(file).err = LoadErrorOf(file)
          /\ FatalExit => (NothingRan /\ Load(file).err # "")
          /\ loopPc # "none" => Validate(cfg) = "")
    /\ [][/\ (mainPc = "load" /\ Load(file).err # "") => FatalExit'
          /\ (mainPc = "load" /\ Load(file).err = "") =>
                (mainPc' = "select" /\ loopPc' = "start"
                   /\ cfg' = Load(file).cfg)
          /\ ~FatalExit]_vars

\* the process has ended at startup on a file with an unknown field
C24_Witness ==
    /\ FatalExit
    /\ file = UnknownFieldFile
    /\ NothingRan

-----------------------------------------------------------------------------
(* Port discovery *)

PortsGathered == loopPc = "services"

\* the ports of a sequence of port records
RECURSIVE PortsOf(_)
PortsOf(records) ==
    IF records = <<>> THEN <<>>
    ELSE <<Head(records).Port>> \o PortsOf(Tail(records))

\* the port that a parser extracts from a line, if any: the line is one of
\* a listener, its pattern matches and the digits spell an int
Extracts(line, primary) ==
    LET m == IF ~primary THEN netstatPattern(line)
             ELSE IF ssPattern(line).matched THEN ssPattern(line)
             ELSE simplePattern(line)
        listener == IF primary THEN LineContains(line, "LISTEN")
                    ELSE LineContains(line, "LISTEN")
                           \/ LineContains(line, "listening")
    IN IF listener /\ m.matched /\ m.port # OutOfRange THEN <<m.port>>
       ELSE <<>>

RECURSIVE ExtractedPorts(_, _)
ExtractedPorts(output, primary) ==
    IF output = <<>> THEN <<>>
    ELSE Extracts(Head(output), primary)
           \o ExtractedPorts(Tail(output), primary)

\* the output that GetOpenPorts parses
ParsedOutput(tools) ==
    IF tools.ss.ok THEN tools.ss.out ELSE FirstRun(tools.netstat).out

\* C25: once a cycle has gathered its ports, with a non-empty
\* ports_to_monitor every port record, from ss and from netstat alike, has
\* its port in the filter; with an empty ports_to_monitor the records carry,
\* in the order of the lines and with duplicates, exactly the ports that
\* the parser extracts from the tool output.
C25_PortFilter ==
    PortsGathered =>
        LET filter == cfg.PortsToMonitor
            records == gathered.ports.elems
        IN /\ Len(filter) > 0 =>
                \A i \in DOMAIN records :
                   \E j \in DOMAIN filter : records[i].Port = filter[j]
           /\ Len(filter) = 0 =>
                PortsOf(records) =
                   ExtractedPorts(ParsedOutput(hostState.tools),
                                  hostState.tools.ss.ok)

\* netstat reported port 22 and port 80 and the filter <<80>> kept the one
\* record of port 80
C25_Witness ==
    /\ PortsGathered
    /\ cfg.PortsToMonitor = <<80>>
    /\ ~hostState.tools.ss.ok
    /\ ExtractedPorts(ParsedOutput(hostState.tools), FALSE) = <<22, 80>>
    /\ PortsOf(gathered.ports.elems) = <<80>>

-----------------------------------------------------------------------------
(* Certificate check *)

SSLGathered == loopPc = "logs"

\* the configured domains as CheckSSL dials them: cleaned, blanks left out
RECURSIVE Cleaned(_)
Cleaned(domains) ==
    IF domains = <<>> THEN <<>>
    ELSE IF CleanDomain(Head(domains)) = "" THEN Cleaned(Tail(domains))
    ELSE <<CleanDomain(Head(domains))>> \o Cleaned(Tail(domains))

RECURSIVE DomainsOf(_)
DomainsOf(records) ==
    IF records = <<>> THEN <<>>
    ELSE <<Head(records).Domain>> \o DomainsOf(Tail(records))

\* C26: once a cycle has checked its certificates, every configured domain
\* has been dialled, in the configured order, whatever failed before it; the
\* result has one record per domain whose check succeeded, in that order;
\* CheckSSL returned an error exactly when some domain failed and none
\* succeeded, and then the error is the one of the first domain that failed
\* and the result is empty; when exactly one domain succeeded the result has
\* exactly one record and there is no error.
C26_PartialCertificateResults ==
    SSLGathered =>
        LET servers == hostState.servers
            domains == Cleaned(cfg.SSLDomains)
            Succeeds(d) == Handshakes(servers[d])
            Fails(d) == ~Handshakes(servers[d])
            good == SelectSeq(domains, Succeeds)
            bad == SelectSeq(domains, Fails)
            r == CheckSSL(cfg.SSLDomains, servers)
        IN /\ r.dialled = domains
           /\ DomainsOf(r.val.elems) = good
           /\ r.err <=> (Len(bad) > 0 /\ Len(good) = 0)
           /\ r.err => (r.firstError = bad[1] /\ r.val.elems = <<>>)
           /\ Len(good) = 1 => (Len(r.val.elems) = 1 /\ ~r.err)
           /\ gathered.ssl = OrEmpty(r)
           /\ ("ssl" \in failed) <=> r.err

\* of three configured domains the first two failed and the third gave the
\* one record of the cycle, with no error
C26_Witness ==
    /\ SSLGathered
    /\ Cleaned(cfg.SSLDomains) = <<"a.example", "b.example", "c.example">>
    /\ ~Handshakes(hostState.servers["a.example"])
    /\ ~Handshakes(hostState.servers["b.example"])
    /\ DomainsOf(gathered.ssl.elems) = <<"c.example">>
    /\ "ssl" \notin failed

\* the floor of a duration in whole days
FloorDays(seconds) ==
    IF seconds >= 0 \/ seconds % (24 * Hour) = 0
    THEN seconds \div (24 * Hour)
    ELSE -((-seconds) \div (24 * Hour)) - 1

\* C27: the days-remaining of every certificate record is the floor, in
\* whole days, of its validity end minus the instant of the check (the call
\* of time.Until), and is negative when the certificate is expired at that
\* instant.
C27_DaysLeftIsFloor ==
    SSLGathered =>
        \A i \in DOMAIN gathered.ssl.elems :
            LET rec == gathered.ssl.elems[i]
                remaining == rec.ValidUntil - hostState.servers[rec.Domain].lag
            IN /\ rec.DaysLeft = FloorDays(remaining)
               /\ remaining < 0 => rec.DaysLeft < 0

-----------------------------------------------------------------------------
(* The Redaction Engine *)

\* the cycle has sampled the logs
LogsGathered == loopPc = "assemble"

\* the text of the record of the system log; the empty text when the log
\* gave no record
SyslogMessage ==
    IF Len(gathered.logs.elems) = 0 THEN <<>>
    ELSE gathered.logs.elems[1].Message

\* the marker of the category of each form
MarkerOf(f) ==
    CASE f = "jwt" -> JwtRedacted
      [] f = "pem" -> KeyRedacted
      [] OTHER -> Redacted

\* C28: whatever forms the log was written with (password=X,
\* "password": "X", api_key=X, a bearer token, a JWT triple, a PEM block,
\* alone, combined, or nested as a bearer token after a token: key), the
\* sanitized text does not hold the value X and holds the marker of the
\* category of each form.
C28_RedactionRemovesSecrets ==
    LogsGathered =>
        \A k \in DOMAIN hostState.written.forms :
            hostState.written.forms[k] # "plain" =>
                /\ ~HasSub(SyslogMessage, hostState.written.value)
                /\ HasSub(SyslogMessage, MarkerOf(hostState.written.forms[k]))

\* the record readLogFile makes of the system log had it been written with
\* the value Y
RecordWith(Y) ==
    readLogFile(Syslog, cfg.LogMaxLines,
                FilesWith(LogText(hostState.written.forms, Y))).entry

\* C29: the record of a log (text and severity) does not depend on the
\* values that redaction masks: had the log been written with another value,
\* redacted to the same text, the record would be the same.
C29_RecordIndependentOfSecrets ==
    LogsGathered /\ Len(gathered.logs.elems) > 0 =>
        \A Y \in Values :
            RecordWith(Y).Message = SyslogMessage =>
                RecordWith(Y) = gathered.logs.elems[1]

\* the text the pattern r is applied to: the content after the patterns
\* before r
RECURSIVE TextBefore(_, _)
TextBefore(content, r) ==
    IF r = 1 THEN content
    ELSE ReplaceAllString(r - 1, TextBefore(content, r - 1))

Markers == {Redacted, JwtRedacted, KeyRedacted, AwsRedacted}

\* a marker of t lies, whole or in part, in the characters keep..upto-1
MarkerWithin(t, keep, upto) ==
    \E M \in Markers : \E p \in DOMAIN t :
        StartsAt(t, p, M) /\ p < upto /\ p + Len(M) > keep

\* the pattern r replaces characters of a marker that stands in t
Reprocesses(r, t) ==
    \E k \in DOMAIN FindAll(r, t) :
        MarkerWithin(t, FindAll(r, t)[k].keep, FindAll(r, t)[k].upto)

\* the blanket substitution of the word w replaces characters of a marker
BlanketReprocesses(w, t) ==
    \E p \in DOMAIN t : StartsAt(t, p, w) /\ MarkerWithin(t, p, p + Len(w))

\* the content of the system log as readLogFile joins it
SyslogContent ==
    JoinLines(LastLines(hostState.files[Syslog].lines, cfg.LogMaxLines))

\* C30: no pattern replaces a marker that an earlier pattern inserted, and
\* the blanket substitution of the words password and secret touches no
\* marker.
C30_NoRuleReprocessesMarkers ==
    LogsGathered =>
        /\ \A r \in Patterns : ~Reprocesses(r, TextBefore(SyslogContent, r))
        /\ \A w \in {PasswordWord, SecretWord} :
              ~BlanketReprocesses(w, ApplyPatterns(SyslogContent, 1))

-----------------------------------------------------------------------------
(* The Log Sampler *)

\* the number of lines the sampler keeps of a file of total lines
Kept(total) == IF total < cfg.LogMaxLines THEN total ELSE cfg.LogMaxLines

\* a file that opens and that the scanner reads to its end
Readable(f) == f.readable /\ ~f.scanErr

\* the paths of cfg.LogPaths that are to give a record: a path that is not
\* empty, of a file that is readable and holds a line
Sampled ==
    SelectSeq([i \in DOMAIN cfg.LogPaths |-> cfg.LogPaths[i]],
              LAMBDA p : /\ p # ""
                         /\ Readable(hostState.files[p])
                         /\ Len(hostState.files[p].lines) > 0)

\* the lines first..last of a file, joined by newlines, written out by index
RECURSIVE JoinedFrom(_, _, _)
JoinedFrom(lines, first, last) ==
    IF first > last THEN <<>>
    ELSE IF first = last THEN lines[first]
    ELSE lines[first] \o <<"\n">> \o JoinedFrom(lines, first + 1, last)

\* C31: the sampler gives one record for each configured path that is not
\* empty and whose file is readable and holds a line, in configured order;
\* the record holds the last min(N, total) lines of the file and that
\* number as its line count; no other path (empty, or of a file that cannot
\* be opened, cannot be read to its end or holds no line) gives a record,
\* and no error reaches the cycle (the cycle keeps what the sampler
\* returned, nil when there is no record).
C31_SamplerRecords ==
    LogsGathered =>
        /\ Len(gathered.logs.elems) = Len(Sampled)
        /\ \A i \in DOMAIN Sampled :
              LET total == Len(hostState.files[Sampled[i]].lines)
                  rec == gathered.logs.elems[i]
              IN  /\ rec.Path = Sampled[i]
                  /\ rec.Lines = Kept(total)
                  /\ rec.Message =
                        JoinedFrom(hostState.files[Sampled[i]].lines,
                                   total - Kept(total) + 1, total)
        /\ "logs" \notin failed =>
              (gathered.logs.nil <=> Len(cfg.LogPaths) > 0 /\ Len(Sampled) = 0)

-----------------------------------------------------------------------------
(* Severity *)

\* the family of each word of the log, "" for a word of no family
FamilyOf(w) ==
    CASE w \in {"CRITICAL", "panic", "Fatal"} -> "critical"
      [] w \in {"ERROR", "exception"} -> "error"
      [] w \in {"Warning", "warn"} -> "warn"
      [] w \in {"INFO", "information"} -> "info"
      [] OTHER -> ""

\* the first family, in the order of priority, that a word of ws belongs to
FirstFamily(ws) ==
    LET has(f) == \E k \in DOMAIN ws : FamilyOf(ws[k]) = f
    IN  IF has("critical") THEN "critical"
        ELSE IF has("error") THEN "error"
        ELSE IF has("warn") THEN "warn"
        ELSE IF has("info") THEN "info"
        ELSE ""

\* C32: the severity of a record is the first of the families
\* critical/panic/fatal, error/exception, warn, info that has a keyword in
\* the text, whatever its case, and is unset for a text with no keyword of
\* these families.
C32_SeverityByFamily ==
    LogsGathered /\ Len(gathered.logs.elems) > 0 =>
        gathered.logs.elems[1].Level = FirstFamily(hostState.written.forms)

-----------------------------------------------------------------------------
(* Concurrent updates *)

\* every goroutine has sent its response, and among them one carried the
\* new hostname and one the new line limit
BothUpdatesDone ==
    /\ \A i \in DOMAIN tasks : tasks[i].pc = "done"
    /\ \E i \in DOMAIN tasks : tasks[i].payload = HostnameUpdate
    /\ \E i \in DOMAIN tasks : tasks[i].payload = LinesUpdate

\* C33: when update_config commands of one poll that set the hostname and
\* the line limit have all completed, the configuration file holds both new
\* values.
C33_NoLostUpdate ==
    BothUpdatesDone =>
        /\ Load(file).err = ""
        /\ Load(file).cfg.Hostname = "host2"
        /\ Load(file).cfg.LogMaxLines = 50

-----------------------------------------------------------------------------
(* One cycle at a time *)

\* collectionLoop is inside a collectAndSend call
InCycle == loopPc \notin {"none", "start", "select", "stopped"}

\* this step enters collectAndSend
StartsCycle == loopPc' = "poll" /\ loopPc # "poll"

\* C34: a cycle is started only by the loop itself while it is in no cycle:
\* the first one at startup, before the ticker exists and before any tick,
\* every later one by taking a tick out of ticker.C; the count of cycles
\* grows by one then and at no other step, so while a cycle gathers, sends
\* or waits to retry no other cycle starts.
C34_OneCycleAtATime ==
    [][/\ StartsCycle =>
            /\ ~InCycle
            /\ cycles' = cycles + 1
            /\ IF cycles = 0
               THEN loopPc = "start" /\ ~tickerOn /\ tickerC = 0
               ELSE loopPc = "select" /\ tickerC = 1 /\ tickerC' = 0
       /\ cycles' # cycles => StartsCycle
       /\ InCycle /\ InCycle' => cycles' = cycles]_vars

\* a tick waits in ticker.C while the second cycle sleeps before a retry
C34_Witness == loopPc = "backoff" /\ tickerC = 1 /\ cycles = 2

-----------------------------------------------------------------------------
(* The payload of a cycle *)

\* this step is a sendRequest call
Requests == sendAttempts' = sendAttempts + 1

\* C35: every request of a cycle carries the payload that this cycle
\* assembled from its own gathering, with this cycle's timestamp; a retry
\* carries the body of the request before it; nothing changes the payload
\* while Send runs; and a new cycle starts with no payload and no request
\* body, whatever became of the one before.
C35_OwnPayloadEveryAttempt ==
    [][/\ Requests =>
            /\ wire' = [body |-> payload, ts |-> Now(cycles)]
            /\ \E h \in OsHostnames :
                  payload = AssemblePayload(gathered,
                                            HostnameOf(cfg.Hostname, h))
            /\ sendAttempts > 0 => wire' = wire
       /\ InSend => /\ sentPayload' = sentPayload
                    /\ stamp' = stamp
                    /\ payload' = payload
       /\ cycles' # cycles => /\ sentPayload' = NoPayload
                              /\ stamp' = NoStamp
                              /\ wire' = NoRequest]_vars

\* the second cycle has sent its own payload, log records included, a third
\* time
C35_Witness ==
    /\ cycles = 2
    /\ sendAttempts = 3
    /\ sendFailures = 3
    /\ wire = [body |-> sentPayload, ts |-> 2]
    /\ wire.body.logs # NilSlice

-----------------------------------------------------------------------------
(* The choice of the port discovery tool *)

\* the variants of netstat that run on the host
Runs == { i \in 1..3 : hostState.tools.netstat[i].ok }

\* C36: once a cycle has gathered its ports: where ss ran, the records are
\* those parsed from the output of ss, none when it lists none, and the
\* source has not failed, whatever netstat would print; where ss did not
\* run and some variant of netstat does, the records are those parsed from
\* the output of the earliest variant that runs; and the source has failed
\* exactly where neither ss nor any variant of netstat ran.
C36_FallbackOnlyOnFailure ==
    PortsGathered =>
        LET tools == hostState.tools
            filter == cfg.PortsToMonitor
        IN /\ tools.ss.ok =>
                /\ "ports" \notin failed
                /\ gathered.ports.elems = parseSSOutput(tools.ss.out, filter)
           /\ ~tools.ss.ok =>
                \A i \in Runs :
                   (\A j \in Runs : i <= j) =>
                       gathered.ports.elems =
                          parseNetstatOutput(tools.netstat[i].out, filter)
           /\ "ports" \in failed <=> (~tools.ss.ok /\ Runs = {})

\* ss ran and printed only a line that is no listener, the three variants
\* of netstat would all have listed a port, and the cycle has no port record
C36_Witness ==
    /\ PortsGathered
    /\ hostState.tools.ss.ok
    /\ Len(hostState.tools.ss.out) = 1
    /\ Runs = 1..3
    /\ \A i \in Runs :
          parseNetstatOutput(hostState.tools.netstat[i].out,
                             cfg.PortsToMonitor) # <<>>
    /\ gathered.ports = NilSlice
    /\ "ports" \notin failed

-----------------------------------------------------------------------------
(* The shape of a port record *)

\* the line names the process of its socket: the process column of the
\* tool that printed it
Attributed(line) ==
    \E i \in DOMAIN line : line[i].kind \in {"users", "pidprog"}

\* the records have protocol tcp or udp and a port of 1..65535
ProtocolAndRange(records) ==
    \A i \in DOMAIN records :
       /\ records[i].Protocol \in {"tcp", "udp"}
       /\ records[i].Port \in 1..65535

\* a record of the only line of an output is "unknown" without a process id
\* exactly when the line names no process
UnknownIffUnattributed(records, output) ==
    (Len(output) = 1 /\ Len(records) = 1) =>
        ((records[1].Process = "unknown" /\ records[1].PID = 0)
            <=> ~Attributed(output[1]))

\* a record has a service tag and a service name only when the classifier
\* finds a category for its process and port, and then it has both
TaggedOnlyWhenClassified(records) ==
    \A i \in DOMAIN records :
       LET type == DetectService(records[i].Process, records[i].Port)
       IN IF type = "unknown"
          THEN records[i].ServiceType = "" /\ records[i].ServiceName = ""
          ELSE /\ records[i].ServiceType = type
               /\ records[i].ServiceName = getServiceName(type)

\* C37: once a cycle has gathered its ports, whatever text the tool
\* printed, every port record has protocol tcp or udp and a port in
\* 1..65535, is "unknown" without a process id exactly when its line names
\* no process, and has a service tag and name only when the classifier
\* returns a category other than unknown.
C37_RecordShape ==
    PortsGathered =>
        /\ ProtocolAndRange(gathered.ports.elems)
        /\ UnknownIffUnattributed(gathered.ports.elems,
                                  ParsedOutput(hostState.tools))
        /\ TaggedOnlyWhenClassified(gathered.ports.elems)

-----------------------------------------------------------------------------
(* Save and Load *)

\* config.Save has returned in some update_config task, and no other task
\* is in the middle of a Save
Saved ==
    /\ \E i \in DOMAIN tasks : tasks[i].status = "success"
    /\ file.state = "complete"

\* C38: once config.Save has written back the configuration that Load
\* returned, Load of the written file succeeds and returns a configuration
\* equal to it in every field: an empty hostname and empty lists, which
\* Save leaves out of the file, and a log_max_lines set by SetDefaults
\* included; and a task that loads the file after another has saved it has
\* the same configuration at hand.
C38_SaveLoadRoundTrip ==
    /\ Saved =>
          /\ file = FileOf(cfg)
          /\ Load(file).err = ""
          /\ Load(file).cfg = cfg
    /\ \A i \in DOMAIN tasks : tasks[i].status = "success" => tasks[i].cur = cfg

\* a configuration with no hostname, no log path, no domain, the default
\* log_max_lines and two ports has been saved by one task and then loaded
\* and saved by a second: the file has no hostname, log_paths or
\* ssl_domains key
C38_Witness ==
    /\ Saved
    /\ Len(tasks) = 2
    /\ \A i \in DOMAIN tasks : tasks[i].status = "success"
    /\ cfg.Hostname = ""
    /\ cfg.LogPaths = <<>>
    /\ cfg.SSLDomains = <<>>
    /\ cfg.LogMaxLines = 100
    /\ cfg.PortsToMonitor = <<80, 22>>
    /\ file.obj.hostname = Absent
    /\ file.obj.log_paths = Absent
    /\ file.obj.ssl_domains = Absent
    /\ file.obj.log_max_lines = Whole(100)

====
